---- MODULE Spec2Model ----
(***************************************************************************)
(* claude-code-marketing: the three-layer session state (continuity        *)
(* ledger, handoffs, history) and the session manager that coordinates     *)
(* them, over the YAML record store.                                       *)
(*                                                                         *)
(* Strings are sequences of one-character strings, so that toLowerCase     *)
(* and generateId are computed character by character.  JavaScript's       *)
(* undefined is Undefined and null is Null.  A file holds the value that   *)
(* readYaml returns for it (yaml.stringify drops keys whose value is       *)
(* undefined, and they read back as undefined); a missing file is Null.    *)
(* getTimestamp() and getDateString() read the logical clock `clock`.      *)
(***************************************************************************)
EXTENDS Integers, Sequences, FiniteSets, TLC

VARIABLES
  clock,           \* the wall clock, as a logical clock
  brandFiles,      \* brands/<id>.yaml
  configFile,      \* config.yaml: the activeBrand key
  currentLedger,   \* continuity-ledger.ts: let currentLedger
  continuityFile,  \* session/continuity.yaml
  handoffFiles,    \* handoffs/<id>.yaml
  currentSession,  \* history-manager.ts: let currentSession
  historyFiles,    \* history/<id>/<YYYY-MM>.yaml: the sessions list
  sessionState,    \* session-manager.ts: let sessionState
  last,            \* history variable: the last call, its arguments and what it returned
  written,         \* history variable: per brand, what the last finishSession's createHandoff returned
  learningsFile,   \* memory/learnings.yaml
  onboardingState, \* the OnboardingState the /start skill carries between replies
  rateLimits,      \* api-base.ts: the module's rateLimits record
  callers,         \* per caller, the locals of its rateLimit call waiting at the await, or null
  now              \* Date.now(), in steps of 500 ms

vars == <<clock, brandFiles, configFile, currentLedger, continuityFile,
          handoffFiles, currentSession, historyFiles, sessionState, last, written, learningsFile,
          onboardingState, rateLimits, callers, now>>

-----------------------------------------------------------------------------
(* Bounds *)

MaxClock == 3
MaxTasks == 2
MaxBlockers == 2
MaxNotes == 1
MaxSteps == 3
MaxNameLen == 3
MaxLearnings == 2
MaxSessions == 2
MaxActivities == 1

-----------------------------------------------------------------------------
(* Values *)

Null == [null |-> TRUE]
Undefined == <<"undefined">>

\* JavaScript truthiness of a value of type string | undefined
Truthy(s) == s # Undefined /\ s # <<>>

LowerChar(c) ==
  CASE c = "A" -> "a" [] c = "B" -> "b" [] c = "X" -> "x" [] c = "Y" -> "y"
    [] c = "S" -> "s" [] c = "Skip" -> "skip"
    [] OTHER -> c

toLowerCase(s) == [i \in 1..Len(s) |-> LowerChar(s[i])]

\* Array.prototype.splice(i, 1) on a 1-based index
splice(seq, i) == [j \in 1..(Len(seq) - 1) |-> IF j < i THEN seq[j] ELSE seq[j + 1]]

\* Array.prototype.includes
includes(seq, x) == \E i \in 1..Len(seq) : seq[i] = x

\* Array.prototype.slice(-n)
sliceLast(seq, n) == IF Len(seq) <= n THEN seq ELSE SubSeq(seq, Len(seq) - n + 1, Len(seq))

\* Array.prototype.slice(0, n)
sliceFirst(seq, n) == IF Len(seq) <= n THEN seq ELSE SubSeq(seq, 1, n)

\* Array.prototype.join on an array of strings
join(parts, sep) ==
  LET J[i \in 0..Len(parts)] ==
        IF i = 0 THEN <<>>
        ELSE IF i = 1 THEN parts[1]
        ELSE J[i - 1] \o sep \o parts[i]
  IN J[Len(parts)]

\* the concatenation of an array of strings
concat(parts) == join(parts, <<>>)

getTimestamp == clock
getDateString == clock

-----------------------------------------------------------------------------
(* Inputs *)

Tasks == {<<"x">>, <<"X">>, <<"y">>}
Results == {Undefined, <<>>, <<"r">>}
Progress == {<<"r">>}
Blockers == {<<"b">>, <<"B">>}
Notes == {<<"n">>}
Goals == {Undefined, <<>>, <<"g">>}

-----------------------------------------------------------------------------
(* Continuity ledger: continuity-ledger.ts *)

initLedger(brandId, brandName, goal) ==
  [brandId |-> brandId, brandName |-> brandName, started |-> getTimestamp,
   goal |-> goal, completed |-> <<>>, inProgress |-> <<>>,
   blockers |-> <<>>, notes |-> <<>>]

\* currentLedger || loadLedger()
getLedger == IF currentLedger # Null THEN currentLedger ELSE continuityFile

sameTask(t, task) == toLowerCase(t.task) = toLowerCase(task)

\* inProgress.findIndex((t) => t.task.toLowerCase() === task.toLowerCase()),
\* 1-based; 0 when no entry matches
findIndex(inProgress, task) ==
  IF \E i \in 1..Len(inProgress) : sameTask(inProgress[i], task)
  THEN CHOOSE i \in 1..Len(inProgress) :
         /\ sameTask(inProgress[i], task)
         /\ \A j \in 1..(i - 1) : ~sameTask(inProgress[j], task)
  ELSE 0

\* addCompletedTask, were it to skip a task that is already in the completed list
addCompletedTask_Dedup(ledger, task, result) ==
  [ledger EXCEPT
     !.inProgress = SelectSeq(@, LAMBDA t : ~sameTask(t, task)),
     !.completed = IF \E i \in 1..Len(@) : @[i].task = task THEN @
                   ELSE Append(@, [task |-> task, timestamp |-> getTimestamp,
                                   result |-> result])]

addCompletedTask(ledger, task, result) ==
  [ledger EXCEPT
     !.inProgress = SelectSeq(@, LAMBDA t : ~sameTask(t, task)),
     !.completed = Append(@, [task |-> task, timestamp |-> getTimestamp, result |-> result])]

\* addInProgressTask, were it to compare the task texts as they are
addInProgressTask_CaseSensitive(ledger, task) ==
  IF \E i \in 1..Len(ledger.inProgress) : ledger.inProgress[i].task = task
  THEN ledger
  ELSE [ledger EXCEPT
          !.inProgress = Append(@, [task |-> task, timestamp |-> getTimestamp,
                                    result |-> Undefined])]

addInProgressTask(ledger, task) ==
  IF \E i \in 1..Len(ledger.inProgress) : sameTask(ledger.inProgress[i], task)
  THEN ledger
  ELSE [ledger EXCEPT
          !.inProgress = Append(@, [task |-> task, timestamp |-> getTimestamp,
                                    result |-> Undefined])]

updateTaskProgress(ledger, task, result) ==
  LET taskIndex == findIndex(ledger.inProgress, task)
  IN IF taskIndex >= 1
     THEN [ledger EXCEPT !.inProgress[taskIndex].result = result]
     ELSE ledger

\* completeTask, were it to store its result argument whatever it is
completeTask_Overwrites(ledger, task, result) ==
  LET taskIndex == findIndex(ledger.inProgress, task)
      completedTask == ledger.inProgress[taskIndex]
  IN IF taskIndex >= 1
     THEN [ledger EXCEPT
             !.inProgress = splice(@, taskIndex),
             !.completed = Append(@,
                [task |-> completedTask.task,
                 timestamp |-> getTimestamp,
                 result |-> result])]
     ELSE addCompletedTask(ledger, task, result)

completeTask(ledger, task, result) ==
  LET taskIndex == findIndex(ledger.inProgress, task)
      completedTask == ledger.inProgress[taskIndex]
  IN IF taskIndex >= 1
     THEN [ledger EXCEPT
             !.inProgress = splice(@, taskIndex),
             !.completed = Append(@,
                [task |-> completedTask.task,
                 timestamp |-> getTimestamp,
                 result |-> IF Truthy(result) THEN result ELSE completedTask.result])]
     ELSE addCompletedTask(ledger, task, result)

addBlocker(ledger, blocker) ==
  IF ~includes(ledger.blockers, blocker)
  THEN [ledger EXCEPT !.blockers = Append(@, blocker)]
  ELSE ledger

removeBlocker(ledger, blocker) ==
  [ledger EXCEPT
     !.blockers = SelectSeq(@, LAMBDA b : toLowerCase(b) # toLowerCase(blocker))]

addLedgerNote(ledger, note) ==
  IF ~includes(ledger.notes, note)
  THEN [ledger EXCEPT !.notes = Append(@, note)]
  ELSE ledger

setGoal(ledger, goal) == [ledger EXCEPT !.goal = goal]

\* minutes < 60 ? `${minutes} min` : `${Math.floor(minutes / 60)}h ${minutes % 60}m`
formatDuration(minutes) ==
  IF minutes < 60 THEN <<ToString(minutes), " min">>
  ELSE <<ToString(minutes \div 60), "h ", ToString(minutes % 60), "m">>

getSessionSummary ==
  IF getLedger = Null THEN Null
  ELSE [brandId |-> getLedger.brandId,
        brandName |-> getLedger.brandName,
        duration |-> formatDuration(clock - getLedger.started),
        completed |-> Len(getLedger.completed),
        inProgress |-> Len(getLedger.inProgress),
        blockers |-> Len(getLedger.blockers),
        notes |-> Len(getLedger.notes)]

-----------------------------------------------------------------------------
(* Handoffs: handoffs.ts *)

\* generateDefaultNextSteps, were it to add the goal step whatever the lists hold
generateDefaultNextSteps_GoalAlways(ledger) ==
  LET nIn == Len(ledger.inProgress)
      nBl == Len(ledger.blockers)
      steps == [i \in 1..(nIn + nBl) |->
                  IF i <= nIn
                  THEN [priority |-> i,
                        task |-> <<"Continue: ">> \o ledger.inProgress[i].task,
                        context |-> ledger.inProgress[i].result]
                  ELSE [priority |-> i,
                        task |-> <<"Resolve blocker: ">> \o ledger.blockers[i - nIn],
                        context |-> Undefined]]
  IN IF Truthy(ledger.goal)
     THEN Append(steps, [priority |-> 1,
                         task |-> <<"Continue working on: ">> \o ledger.goal,
                         context |-> Undefined])
     ELSE steps

generateDefaultNextSteps(ledger) ==
  LET nIn == Len(ledger.inProgress)
      nBl == Len(ledger.blockers)
      steps == [i \in 1..(nIn + nBl) |->
                  IF i <= nIn
                  THEN [priority |-> i,
                        task |-> <<"Continue: ">> \o ledger.inProgress[i].task,
                        context |-> ledger.inProgress[i].result]
                  ELSE [priority |-> i,
                        task |-> <<"Resolve blocker: ">> \o ledger.blockers[i - nIn],
                        context |-> Undefined]]
  IN IF Len(steps) = 0 /\ Truthy(ledger.goal)
     THEN <<[priority |-> 1,
             task |-> <<"Continue working on: ">> \o ledger.goal,
             context |-> Undefined]>>
     ELSE steps

\* .map((t) => t.task)
taskTexts(tasks) == [i \in 1..Len(tasks) |-> tasks[i].task]

generateResumePrompt(ledger, nextSteps) ==
  LET brand == <<<<"Working with ">> \o ledger.brandName \o <<".">>>>
      goal == IF Truthy(ledger.goal) THEN <<<<"Goal: ">> \o ledger.goal>> ELSE <<>>
      done == IF Len(ledger.completed) > 0
              THEN <<<<"Last session completed: ">> \o
                     join(taskTexts(sliceLast(ledger.completed, 3)), <<", ">>)>>
              ELSE <<>>
      doing == IF Len(ledger.inProgress) > 0
               THEN <<<<"In progress: ">> \o
                      join(taskTexts(ledger.inProgress), <<", ">>)>>
               ELSE <<>>
      blocked == IF Len(ledger.blockers) > 0
                 THEN <<<<"Blockers: ">> \o join(ledger.blockers, <<", ">>)>>
                 ELSE <<>>
      next == IF Len(nextSteps) > 0
              THEN <<<<"Suggested next: ">> \o
                     join(taskTexts(sliceFirst(nextSteps, 3)), <<"; ">>)>>
              ELSE <<>>
  IN join(brand \o goal \o done \o doing \o blocked \o next, <<" ">>)

completedToHandoff(t) == [task |-> t.task, result |-> t.result]

\* the in-progress mapping, were it to read a `progress` field the ledger's tasks do not have
inProgressToHandoff_NoProgress(t) == [task |-> t.task, progress |-> Undefined]

inProgressToHandoff(t) == [task |-> t.task, progress |-> t.result]

blockerToHandoff(b) == [task |-> b, reason |-> <<"Blocked - needs resolution">>]

\* The handoff createHandoff builds from the ledger; nextSteps is
\* [given |-> FALSE] or [given |-> TRUE, value |-> steps] (an array is truthy).
createHandoff(ledger, nextSteps) ==
  LET steps == IF nextSteps.given THEN nextSteps.value ELSE generateDefaultNextSteps(ledger)
  IN [brandId |-> ledger.brandId,
      created |-> getTimestamp,
      lastSession |->
        [date |-> getDateString,
         duration |-> formatDuration(clock - ledger.started),
         completed |-> [i \in 1..Len(ledger.completed) |->
                         completedToHandoff(ledger.completed[i])],
         inProgress |-> [i \in 1..Len(ledger.inProgress) |->
                          inProgressToHandoff(ledger.inProgress[i])],
         deferred |-> [i \in 1..Len(ledger.blockers) |->
                        blockerToHandoff(ledger.blockers[i])]],
      nextSteps |-> steps,
      resumePrompt |-> generateResumePrompt(ledger, steps)]

getHandoff(brandId) == handoffFiles[brandId]

hasHandoff(brandId) == getHandoff(brandId) # Null

completedLine(t) ==
  <<"* ">> \o t.task \o (IF Truthy(t.result) THEN <<" -> ">> \o t.result ELSE <<>>)

inProgressLine(t) ==
  <<"* ">> \o t.task \o (IF Truthy(t.progress) THEN <<" - ">> \o t.progress ELSE <<>>)

deferredLine(t) ==
  <<"* ">> \o t.task \o (IF Truthy(t.reason) THEN <<" (">> \o t.reason \o <<")">> ELSE <<>>)

nextStepLine(s) ==
  <<ToString(s.priority), ". ">> \o s.task
    \o (IF Truthy(s.context) THEN <<" |_ ">> \o s.context ELSE <<>>)

formatHandoffDisplay(handoff) ==
  LET ls == handoff.lastSession
      last5 == sliceLast(ls.completed, 5)
      head == <<"RESUMING WORK: ">> \o handoff.brandId \o <<"Last session: ", ToString(ls.date)>>
              \o (IF Truthy(ls.duration) THEN <<" (">> \o ls.duration \o <<")">> ELSE <<>>)
      done == IF Len(ls.completed) > 0
              THEN <<"COMPLETED LAST SESSION:">> \o
                   concat([i \in 1..Len(last5) |-> completedLine(last5[i])])
              ELSE <<>>
      doing == IF Len(ls.inProgress) > 0
               THEN <<"LEFT IN PROGRESS:">> \o
                    concat([i \in 1..Len(ls.inProgress) |-> inProgressLine(ls.inProgress[i])])
               ELSE <<>>
      deferred == IF Len(ls.deferred) > 0
                  THEN <<"DEFERRED:">> \o
                       concat([i \in 1..Len(ls.deferred) |-> deferredLine(ls.deferred[i])])
                  ELSE <<>>
      next == IF Len(handoff.nextSteps) > 0
              THEN <<"SUGGESTED NEXT STEPS:">> \o
                   concat([i \in 1..Len(handoff.nextSteps) |-> nextStepLine(handoff.nextSteps[i])])
              ELSE <<>>
  IN head \o done \o doing \o deferred \o next
     \o <<"Resume: ">> \o handoff.resumePrompt

\* Array.prototype.sort((a, b) => a.priority - b.priority), a stable sort:
\* the first k steps sorted, then the whole list
sortByPriority(steps) ==
  LET insert(sorted, step) ==
        LET before == SelectSeq(sorted, LAMBDA e : e.priority <= step.priority)
            after == SelectSeq(sorted, LAMBDA e : e.priority > step.priority)
        IN before \o <<step>> \o after
      S[k \in 0..Len(steps)] ==
        IF k = 0 THEN <<>> ELSE insert(S[k - 1], steps[k])
  IN S[Len(steps)]

\* The handoff addNextStep stores; priority 0 stands for a priority that is
\* not given as well (both are falsy).
addNextStep(handoff, task, priority, context) ==
  LET newPriority == IF priority # 0 THEN priority ELSE Len(handoff.nextSteps) + 1
  IN [handoff EXCEPT
        !.nextSteps = sortByPriority(
           Append(@, [priority |-> newPriority, task |-> task, context |-> context]))]

\* removeNextStep, were it to leave the priorities as they are
removeNextStep_NoRenumber(handoff, taskIndex) ==
  IF taskIndex >= 0 /\ taskIndex < Len(handoff.nextSteps)
  THEN [handoff EXCEPT !.nextSteps = splice(@, taskIndex + 1)]
  ELSE handoff

\* The handoff removeNextStep stores; taskIndex counts from 0.
removeNextStep(handoff, taskIndex) ==
  IF taskIndex >= 0 /\ taskIndex < Len(handoff.nextSteps)
  THEN [handoff EXCEPT
          !.nextSteps = [idx \in 1..(Len(@) - 1) |->
                           [splice(@, taskIndex + 1)[idx] EXCEPT !.priority = idx]]]
  ELSE handoff

-----------------------------------------------------------------------------
(* Storage utilities and brand manager: storage.ts, brand-manager.ts *)

IsAlnum(c) == c \in {"a", "b", "x", "y", "z", "0", "1"}

\* the length generateId cuts the id to
MaxIdLength == 50

\* name.toLowerCase().replace(/[^a-z0-9]+/g, '-').replace(/^-|-$/g, '').substring(0, 50)
generateId(name) ==
  LET lower == toLowerCase(name)
      h == [i \in 1..Len(lower) |-> IF IsAlnum(lower[i]) THEN lower[i] ELSE "-"]
      C[i \in 0..Len(h)] ==
        IF i = 0 THEN <<>>
        ELSE IF h[i] = "-" /\ i > 1 /\ h[i - 1] = "-" THEN C[i - 1]
        ELSE Append(C[i - 1], h[i])
      collapsed == C[Len(h)]
      t1 == IF Len(collapsed) > 0 /\ Head(collapsed) = "-" THEN Tail(collapsed) ELSE collapsed
      t2 == IF Len(t1) > 0 /\ t1[Len(t1)] = "-" THEN SubSeq(t1, 1, Len(t1) - 1) ELSE t1
  IN sliceFirst(t2, MaxIdLength)

\* the website of createBrand, were it to remove the protocol only
cleanWebsite_ProtocolOnly(website) ==
  IF Len(website) > 0 /\ Head(website) \in {"http://", "https://"}
  THEN Tail(website) ELSE website

\* website.replace(/^https?:\/\//, '').replace(/\/$/, ''); the protocol is one token
cleanWebsite(website) ==
  LET w1 == IF Len(website) > 0 /\ Head(website) \in {"http://", "https://"}
            THEN Tail(website) ELSE website
  IN IF Len(w1) > 0 /\ w1[Len(w1)] = "/" THEN SubSeq(w1, 1, Len(w1) - 1) ELSE w1

BrandNames == {<<"A">>, <<"b">>}
Websites == {<<"https://", "w", "/">>}
Ids == {generateId(n) : n \in BrandNames} \cup {<<"z">>}

getBrand(brandId) == brandFiles[brandId]

\* { ...brand, ...updates }
spread(brand, updates) ==
  [f \in DOMAIN brand \cup DOMAIN updates |->
     IF f \in DOMAIN updates THEN updates[f] ELSE brand[f]]

\* updateBrand, were it to spread the updates over the fields it pins
updateBrand_UpdatesLast(brand, updates) ==
  [spread(brand, updates) EXCEPT !.lastUpdated = getDateString]

\* the record updateBrand writes for the stored record `brand`
updateBrand(brand, updates) ==
  [spread(brand, updates) EXCEPT
     !.id = brand.id, !.created = brand.created, !.lastUpdated = getDateString]

\* setActiveBrand: its write of config.yaml
setActiveBrandConfig(brandId) == [configFile EXCEPT !.activeBrand = brandId]

\* setActiveBrand: its update of the brand's lastSession, on brand files `files`
setActiveBrandFiles(files, brandId) ==
  IF Truthy(brandId) /\ files[brandId] # Null
  THEN [files EXCEPT ![brandId] =
          updateBrand(files[brandId], [lastSession |-> getDateString])]
  ELSE files

getActiveBrand ==
  IF ~Truthy(configFile.activeBrand) THEN Null ELSE getBrand(configFile.activeBrand)

newBrand(name, website) ==
  [id |-> generateId(name), name |-> name, website |-> cleanWebsite(website),
   created |-> getDateString, lastUpdated |-> getDateString, lastSession |-> Undefined]

-----------------------------------------------------------------------------
(* History manager: history-manager.ts.  Every session of the model falls in
   one month, so a brand has one history file. *)

startSession(brandId) ==
  [date |-> getDateString, brandId |-> brandId, activities |-> <<>>,
   notes |-> <<>>, duration |-> Undefined]

\* saveSessionToHistory, were it to write a file of the one session
saveSessionToHistory_Overwrites(files, session) ==
  [files EXCEPT ![session.brandId] =
     [brandId |-> session.brandId, sessions |-> <<session>>]]

saveSessionToHistory(files, session) ==
  LET history == IF files[session.brandId] = Null
                 THEN [brandId |-> session.brandId, sessions |-> <<>>]
                 ELSE files[session.brandId]
  IN [files EXCEPT ![session.brandId] =
        [history EXCEPT !.sessions = Append(@, session)]]

\* endSession: the history files it leaves
endSession(duration) ==
  IF currentSession = Null THEN historyFiles
  ELSE saveSessionToHistory(historyFiles,
         IF Truthy(duration) THEN [currentSession EXCEPT !.duration = duration]
         ELSE currentSession)

logActivity(session, type) ==
  [session EXCEPT !.activities =
     Append(@, [type |-> type, timestamp |-> getTimestamp])]

-----------------------------------------------------------------------------
(* State *)

Skipped == [skipped |-> TRUE]

idle == [brand |-> Null, handoff |-> Null, isActive |-> FALSE, startTime |-> <<>>]

\* op: the function called; brand: its brand id argument; name: its name
\* argument; ok: the success it returned (FALSE when it threw); hit: whether it
\* found the entry it searched for; resume: the resumeContext it returned;
\* createHandoff: the option passed; context: its context argument; returned:
\* the list it returned.
NoCall == [op |-> "none", brand |-> Undefined, name |-> Undefined, ok |-> TRUE,
           hit |-> FALSE, resume |-> Undefined, createHandoff |-> TRUE,
           context |-> Undefined, returned |-> Undefined]

Call(op) == [NoCall EXCEPT !.op = op]

\* a call that searched the in-progress list of getLedger() for `task`
Search(op, task) ==
  [Call(op) EXCEPT !.hit =
     /\ getLedger # Null
     /\ \E i \in 1..Len(getLedger.inProgress) : sameTask(getLedger.inProgress[i], task)]

\* the API names of the callers of rateLimit, and the callers of the model,
\* each of which awaits one call at a time
ApiNames == {"semrush", "ahrefs"}
Callers == {1, 2}

Init ==
  /\ clock = 0
  /\ brandFiles = [i \in Ids |-> Null]
  /\ configFile = [activeBrand |-> Undefined]
  /\ currentLedger = Null
  /\ continuityFile = Null
  /\ handoffFiles = [i \in Ids |-> Null]
  /\ currentSession = Null
  /\ historyFiles = [i \in Ids |-> Null]
  /\ sessionState = idle
  /\ last = NoCall
  /\ written = [i \in Ids |-> Null]
  /\ learningsFile = [learnings |-> <<>>]
  /\ onboardingState = Null
  /\ rateLimits = [a \in ApiNames |-> Null]
  /\ callers = [c \in Callers |-> Null]
  /\ now = 0

brandVars == <<brandFiles, configFile>>
ledgerVars == <<currentLedger, continuityFile>>
historyVars == <<currentSession, historyFiles>>
apiVars == <<rateLimits, callers, now>>

\* the ledgers the bounds admit
Fits(ledger) ==
  /\ Len(ledger.completed) + Len(ledger.inProgress) <= MaxTasks
  /\ Len(ledger.blockers) <= MaxBlockers
  /\ Len(ledger.notes) <= MaxNotes

\* a ledger mutator, were saveLedger to leave the write to a later flush
Mutate_Unsaved(ledger, saves) ==
  /\ Fits(ledger)
  /\ currentLedger' = ledger
  /\ continuityFile' = continuityFile

\* a ledger mutator: it works on getLedger() and, when `saves`, calls saveLedger()
Mutate(ledger, saves) ==
  /\ Fits(ledger)
  /\ currentLedger' = ledger
  /\ continuityFile' = IF saves THEN ledger ELSE continuityFile

NoLedger == UNCHANGED ledgerVars

InitLedger(brandId, brandName, goal) ==
  /\ Mutate(initLedger(brandId, brandName, goal), TRUE)
  /\ last' = [Call("initLedger") EXCEPT !.brand = brandId]
  /\ UNCHANGED <<clock, brandVars, handoffFiles, historyVars, sessionState, written, learningsFile, onboardingState, apiVars>>

\* clearLedger, were it to forget the ledger without deleting its file
clearLedger_MemoryOnly == [ledger |-> Null, continuityFile |-> continuityFile]

\* clearLedger: the ledger in memory and the continuity file it leaves
clearLedger == [ledger |-> Null, continuityFile |-> Null]

ClearLedger ==
  /\ currentLedger' = clearLedger.ledger
  /\ continuityFile' = clearLedger.continuityFile
  /\ last' = Call("clearLedger")
  /\ UNCHANGED <<clock, brandVars, handoffFiles, historyVars, sessionState, written, learningsFile, onboardingState, apiVars>>

AddCompletedTask(task, result) ==
  /\ IF getLedger = Null THEN NoLedger
     ELSE Mutate(addCompletedTask(getLedger, task, result), TRUE)
  /\ last' = Call("addCompletedTask")
  /\ UNCHANGED <<clock, brandVars, handoffFiles, historyVars, sessionState, written, learningsFile, onboardingState, apiVars>>

AddInProgressTask(task) ==
  /\ IF getLedger = Null THEN NoLedger
     ELSE Mutate(addInProgressTask(getLedger, task),
                 addInProgressTask(getLedger, task) # getLedger)
  /\ last' = Search("addInProgressTask", task)
  /\ UNCHANGED <<clock, brandVars, handoffFiles, historyVars, sessionState, written, learningsFile, onboardingState, apiVars>>

UpdateTaskProgress(task, result) ==
  /\ IF getLedger = Null THEN NoLedger
     ELSE Mutate(updateTaskProgress(getLedger, task, result),
                 \E i \in 1..Len(getLedger.inProgress) :
                    sameTask(getLedger.inProgress[i], task))
  /\ last' = Search("updateTaskProgress", task)
  /\ UNCHANGED <<clock, brandVars, handoffFiles, historyVars, sessionState, written, learningsFile, onboardingState, apiVars>>

CompleteTask(task, result) ==
  /\ IF getLedger = Null THEN NoLedger
     ELSE Mutate(completeTask(getLedger, task, result), TRUE)
  /\ last' = Search("completeTask", task)
  /\ UNCHANGED <<clock, brandVars, handoffFiles, historyVars, sessionState, written, learningsFile, onboardingState, apiVars>>

AddBlocker(blocker) ==
  /\ IF getLedger = Null THEN NoLedger
     ELSE Mutate(addBlocker(getLedger, blocker),
                 addBlocker(getLedger, blocker) # getLedger)
  /\ last' = [Call("addBlocker") EXCEPT
                !.hit = getLedger # Null /\ includes(getLedger.blockers, blocker)]
  /\ UNCHANGED <<clock, brandVars, handoffFiles, historyVars, sessionState, written, learningsFile, onboardingState, apiVars>>

RemoveBlocker(blocker) ==
  /\ IF getLedger = Null THEN NoLedger
     ELSE Mutate(removeBlocker(getLedger, blocker), TRUE)
  /\ last' = Call("removeBlocker")
  /\ UNCHANGED <<clock, brandVars, handoffFiles, historyVars, sessionState, written, learningsFile, onboardingState, apiVars>>

AddLedgerNote(note) ==
  /\ IF getLedger = Null THEN NoLedger
     ELSE Mutate(addLedgerNote(getLedger, note),
                 addLedgerNote(getLedger, note) # getLedger)
  /\ last' = Call("addLedgerNote")
  /\ UNCHANGED <<clock, brandVars, handoffFiles, historyVars, sessionState, written, learningsFile, onboardingState, apiVars>>

SetGoal(goal) ==
  /\ IF getLedger = Null THEN NoLedger
     ELSE Mutate(setGoal(getLedger, goal), TRUE)
  /\ last' = Call("setGoal")
  /\ UNCHANGED <<clock, brandVars, handoffFiles, historyVars, sessionState, written, learningsFile, onboardingState, apiVars>>

LedgerNext ==
  \/ InitLedger(<<"a">>, <<"A">>, <<"g">>)
  \/ ClearLedger
  \/ \E t \in Tasks, r \in Results : AddCompletedTask(t, r)
  \/ \E t \in Tasks : AddInProgressTask(t)
  \/ \E t \in Tasks, r \in Progress : UpdateTaskProgress(t, r)
  \/ \E t \in Tasks, r \in Results : CompleteTask(t, r)
  \/ \E b \in Blockers : AddBlocker(b)
  \/ \E b \in Blockers : RemoveBlocker(b)
  \/ \E n \in Notes : AddLedgerNote(n)

LedgerSpec == Init /\ [][LedgerNext]_vars

\* createHandoff(nextSteps) called on its own, as the tests call it
CreateHandoff(nextSteps) ==
  /\ IF getLedger = Null
     THEN /\ UNCHANGED <<ledgerVars, handoffFiles>>
          /\ last' = [Call("createHandoff") EXCEPT !.ok = FALSE]
     ELSE /\ currentLedger' = getLedger
          /\ UNCHANGED continuityFile
          /\ handoffFiles' = [handoffFiles EXCEPT
                                ![getLedger.brandId] = createHandoff(getLedger, nextSteps)]
          /\ last' = [Call("createHandoff") EXCEPT !.brand = getLedger.brandId]
  /\ UNCHANGED <<clock, brandVars, historyVars, sessionState, written, learningsFile, onboardingState, apiVars>>

HandoffTasks == {<<"x">>, <<"y">>}
StepArgs ==
  {[given |-> FALSE],
   [given |-> TRUE, value |-> <<>>],
   [given |-> TRUE,
    value |-> <<[priority |-> 1, task |-> <<"s">>, context |-> Undefined]>>]}

\* createHandoff is called when a session ends ("Call this when ending a
\* session"): HandoffSpec builds one session's ledger and then writes handoffs
\* of it; sessions that follow one another are in Spec.
NoHandoffYet == \A i \in Ids : handoffFiles[i] = Null

HandoffNext ==
  \/ NoHandoffYet /\ \E g \in Goals : InitLedger(<<"a">>, <<"A">>, g)
  \/ NoHandoffYet /\ \E t \in HandoffTasks : AddInProgressTask(t)
  \/ NoHandoffYet /\ \E t \in HandoffTasks : UpdateTaskProgress(t, <<"r">>)
  \/ NoHandoffYet /\ \E t \in HandoffTasks : CompleteTask(t, Undefined)
  \/ NoHandoffYet /\ \E b \in Blockers : AddBlocker(b)
  \/ NoHandoffYet /\ SetGoal(<<"g">>)
  \/ \E n \in StepArgs : CreateHandoff(n)

HandoffSpec == Init /\ [][HandoffNext]_vars

AddNextStep(brandId, task, priority, context) ==
  /\ IF getHandoff(brandId) = Null
     THEN /\ UNCHANGED handoffFiles
          /\ last' = [Call("addNextStep") EXCEPT !.brand = brandId, !.ok = FALSE]
     ELSE /\ Len(getHandoff(brandId).nextSteps) < MaxSteps
          /\ handoffFiles' = [handoffFiles EXCEPT
                ![brandId] = addNextStep(getHandoff(brandId), task, priority, context)]
          /\ last' = [Call("addNextStep") EXCEPT !.brand = brandId]
  /\ UNCHANGED <<clock, brandVars, ledgerVars, historyVars, sessionState, written, learningsFile, onboardingState, apiVars>>

\* removeNextStep(brandId, taskIndex); hit: taskIndex was within the list
RemoveNextStep(brandId, taskIndex) ==
  /\ IF getHandoff(brandId) = Null
     THEN /\ UNCHANGED handoffFiles
          /\ last' = [Call("removeNextStep") EXCEPT !.brand = brandId, !.ok = FALSE]
     ELSE /\ handoffFiles' = [handoffFiles EXCEPT
                ![brandId] = removeNextStep(getHandoff(brandId), taskIndex)]
          /\ last' = [Call("removeNextStep") EXCEPT
                        !.brand = brandId,
                        !.hit = /\ taskIndex >= 0
                                /\ taskIndex < Len(getHandoff(brandId).nextSteps)]
  /\ UNCHANGED <<clock, brandVars, ledgerVars, historyVars, sessionState, written, learningsFile, onboardingState, apiVars>>

StepTasks == {<<"s">>, <<"t">>}
StepPriorities == {0, 1, 3}
StepIndexes == -1..MaxSteps
StepBrands == {<<"a">>, <<"z">>}

\* A handoff is written once, from a ledger with a goal, and its step list
\* is then edited.
StepsNext ==
  \/ NoHandoffYet /\ InitLedger(<<"a">>, <<"A">>, <<"g">>)
  \/ NoHandoffYet /\ \E n \in StepArgs : CreateHandoff(n)
  \/ \E b \in StepBrands, t \in StepTasks, p \in StepPriorities :
       AddNextStep(b, t, p, Undefined)
  \/ \E b \in StepBrands, i \in StepIndexes : RemoveNextStep(b, i)

StepsSpec == Init /\ [][StepsNext]_vars

-----------------------------------------------------------------------------
(* Session manager: session-manager.ts *)

\* beginSession calling setActiveBrand before it looks the brand up
beginSession_ActivatesFirst(brandId, goal) ==
  [success |-> FALSE, resumeContext |-> Undefined,
   configFile |-> setActiveBrandConfig(brandId), brandFiles |-> brandFiles,
   ledger |-> currentLedger, continuityFile |-> continuityFile,
   currentSession |-> currentSession, handoffFiles |-> handoffFiles,
   sessionState |-> sessionState]

\* What beginSession(brandId, goal) returns and leaves behind when the brand
\* is missing.
beginSessionNotFound(brandId, goal) ==
  [success |-> FALSE, resumeContext |-> Undefined,
   configFile |-> configFile, brandFiles |-> brandFiles,
   ledger |-> currentLedger, continuityFile |-> continuityFile,
   currentSession |-> currentSession, handoffFiles |-> handoffFiles,
   sessionState |-> sessionState]

\* beginSession clearing the handoff once it has loaded it
beginSessionHandoffs_Consumed(brandId) == [handoffFiles EXCEPT ![brandId] = Null]

\* The handoff files beginSession leaves
beginSessionHandoffs(brandId) == handoffFiles

\* What beginSession(brandId, goal) returns and leaves behind.  The ledger
\* field of sessionState, a reference that nothing reads, is not modelled.
beginSession(brandId, goal) ==
  LET brand == getBrand(brandId)
      handoff == getHandoff(brandId)
  IN IF brand = Null
     THEN beginSessionNotFound(brandId, goal)
     ELSE [success |-> TRUE,
           resumeContext |-> IF hasHandoff(brandId)
                             THEN formatHandoffDisplay(handoff) ELSE Undefined,
           configFile |-> setActiveBrandConfig(brandId),
           brandFiles |-> setActiveBrandFiles(brandFiles, brandId),
           ledger |-> initLedger(brandId, brand.name, goal),
           continuityFile |-> initLedger(brandId, brand.name, goal),
           currentSession |-> startSession(brandId),
           handoffFiles |-> beginSessionHandoffs(brandId),
           sessionState |-> [brand |-> brand,
                             handoff |-> IF hasHandoff(brandId) THEN handoff
                                         ELSE sessionState.handoff,
                             isActive |-> TRUE,
                             startTime |-> <<clock>>]]

\* The options of finishSession: createHandoff is FALSE when the caller
\* passes false and TRUE otherwise.
FinishOptions(steps) ==
  {[createHandoff |-> c, nextSteps |-> n] : c \in BOOLEAN, n \in steps}

\* finishSession clearing the ledger before it checks for an active session
finishSessionIdle_Clears ==
  [success |-> FALSE, created |-> Null,
   handoffFiles |-> handoffFiles, historyFiles |-> historyFiles,
   currentSession |-> currentSession,
   ledger |-> Null, continuityFile |-> Null,
   sessionState |-> sessionState]

\* What finishSession returns and leaves behind when no session is active
finishSessionIdle ==
  [success |-> FALSE, created |-> Null,
   handoffFiles |-> handoffFiles, historyFiles |-> historyFiles,
   currentSession |-> currentSession,
   ledger |-> currentLedger, continuityFile |-> continuityFile,
   sessionState |-> sessionState]

\* What finishSession(options) returns and leaves behind; `created` is the
\* handoff its call of createHandoff returned.
finishSession(options) ==
  IF ~sessionState.isActive \/ sessionState.brand = Null
  THEN finishSessionIdle
  ELSE LET brandId == sessionState.brand.id
           duration == IF sessionState.startTime # <<>>
                       THEN formatDuration(clock - sessionState.startTime[1])
                       ELSE Undefined
           created == IF options.createHandoff /\ getLedger # Null
                      THEN createHandoff(getLedger, options.nextSteps)
                      ELSE Null
           saved == IF created # Null
                    THEN [handoffFiles EXCEPT ![created.brandId] = created]
                    ELSE handoffFiles
       IN [success |-> TRUE, created |-> created,
           handoffFiles |-> IF sessionState.handoff # Null
                            THEN [saved EXCEPT ![brandId] = Null]
                            ELSE saved,
           historyFiles |-> endSession(duration),
           currentSession |-> Null,
           ledger |-> clearLedger.ledger,
           continuityFile |-> clearLedger.continuityFile,
           sessionState |-> idle]

\* createBrand, were it to write the record without looking for an existing one
createBrand_Overwrites(name, website) ==
  LET id == generateId(name)
  IN [ok |-> TRUE,
      brandFiles |-> setActiveBrandFiles(
                       [brandFiles EXCEPT ![id] = newBrand(name, website)], id),
      configFile |-> setActiveBrandConfig(id)]

\* What createBrand leaves behind; ok is FALSE when it throws because a
\* brand of the derived id exists.
createBrand(name, website) ==
  LET id == generateId(name)
  IN IF brandFiles[id] # Null
     THEN [ok |-> FALSE, brandFiles |-> brandFiles, configFile |-> configFile]
     ELSE [ok |-> TRUE,
           brandFiles |-> setActiveBrandFiles(
                            [brandFiles EXCEPT ![id] = newBrand(name, website)], id),
           configFile |-> setActiveBrandConfig(id)]

CreateBrand(name, website) ==
  /\ brandFiles' = createBrand(name, website).brandFiles
  /\ configFile' = createBrand(name, website).configFile
  /\ last' = [Call("createBrand") EXCEPT !.brand = generateId(name), !.name = name,
                                         !.ok = createBrand(name, website).ok]
  /\ UNCHANGED <<clock, ledgerVars, handoffFiles, historyVars, sessionState, written, learningsFile, onboardingState, apiVars>>

\* updateBrand(brandId, updates) throws when the brand has no record;
\* hit: the updates carry an id
UpdateBrand(brandId, updates) ==
  /\ brandFiles' = IF getBrand(brandId) = Null THEN brandFiles
                   ELSE [brandFiles EXCEPT
                           ![brandId] = updateBrand(getBrand(brandId), updates)]
  /\ last' = [Call("updateBrand") EXCEPT !.brand = brandId,
                                         !.ok = getBrand(brandId) # Null,
                                         !.hit = "id" \in DOMAIN updates]
  /\ UNCHANGED <<clock, configFile, ledgerVars, handoffFiles, historyVars,
                 sessionState, written, learningsFile, onboardingState, apiVars>>

\* deleteBrand, were it to leave the active-brand pointer alone
deleteBrand_KeepsPointer(brandId) ==
  IF getBrand(brandId) = Null
  THEN [ok |-> FALSE, brandFiles |-> brandFiles, configFile |-> configFile]
  ELSE [ok |-> TRUE,
        configFile |-> configFile,
        brandFiles |-> [brandFiles EXCEPT ![brandId] = Null]]

\* What deleteBrand leaves behind; ok is FALSE when it throws because the
\* brand has no record.
deleteBrand(brandId) ==
  IF getBrand(brandId) = Null
  THEN [ok |-> FALSE, brandFiles |-> brandFiles, configFile |-> configFile]
  ELSE [ok |-> TRUE,
        configFile |-> IF configFile.activeBrand = brandId
                       THEN setActiveBrandConfig(Undefined) ELSE configFile,
        brandFiles |-> [brandFiles EXCEPT ![brandId] = Null]]

\* hit: the brand was the active brand
DeleteBrand(brandId) ==
  /\ brandFiles' = deleteBrand(brandId).brandFiles
  /\ configFile' = deleteBrand(brandId).configFile
  /\ last' = [Call("deleteBrand") EXCEPT !.brand = brandId,
                                         !.ok = deleteBrand(brandId).ok,
                                         !.hit = configFile.activeBrand = brandId]
  /\ UNCHANGED <<clock, ledgerVars, handoffFiles, historyVars, sessionState, written, learningsFile, onboardingState, apiVars>>

NewNames == {<<"A">>, <<"a">>, <<"b">>, <<"b", "!">>}
NewWebsites == {<<"w">>, <<"https://", "w", "/">>, <<"http://", "v">>}
Updates ==
  {[name |-> <<"N">>],
   [id |-> <<"z">>, created |-> 9, website |-> <<"u">>],
   [id |-> <<"b">>, lastSession |-> 1]}

BrandNext ==
  \/ \E n \in NewNames, w \in NewWebsites : CreateBrand(n, w)
  \/ \E i \in Ids, u \in Updates : UpdateBrand(i, u)
  \/ \E i \in Ids : DeleteBrand(i)

BrandSpec == Init /\ [][BrandNext]_vars

\* setActiveBrand(brandId), with undefined for no brand
SetActiveBrand(brandId) ==
  /\ configFile' = setActiveBrandConfig(brandId)
  /\ brandFiles' = setActiveBrandFiles(brandFiles, brandId)
  /\ last' = [Call("setActiveBrand") EXCEPT !.brand = brandId]
  /\ UNCHANGED <<clock, ledgerVars, handoffFiles, historyVars, sessionState,
                 written, learningsFile, onboardingState, apiVars>>

\* generateId(name): last.brand is the id it returns
GenerateId(name) ==
  /\ last' = [Call("generateId") EXCEPT !.name = name, !.brand = generateId(name)]
  /\ UNCHANGED <<clock, brandVars, ledgerVars, handoffFiles, historyVars,
                 sessionState, written, learningsFile, onboardingState, apiVars>>

\* Names: every text of up to MaxNameLen characters over a letter in upper
\* case, a letter in lower case, a space, a hyphen and a digit; and texts of
\* MaxIdLength - 2 .. MaxIdLength letters followed by a space and a letter.
NameChars == {"A", "b", " ", "-", "1"}
ShortNames == UNION {[1..n -> NameChars] : n \in 0..MaxNameLen}
LongNames ==
  {[i \in 1..k |-> "a"] \o <<" ", "b">> : k \in (MaxIdLength - 2)..MaxIdLength}

GenerateIdNext == \E n \in ShortNames \cup LongNames : GenerateId(n)

GenerateIdSpec == Init /\ [][GenerateIdNext]_vars

-----------------------------------------------------------------------------
(* Archival memory: the learnings *)

global == <<"global">>

\* file?.learnings || []
loadLearnings == learningsFile.learnings

\* writeYaml(getLearningsPath(), { learnings })
saveLearnings(learnings) == [learnings |-> learnings]

\* learnings.findIndex((l) => l.id === learningId), 1-based; 0 for -1
findLearning(learnings, learningId) ==
  IF \E i \in 1..Len(learnings) : learnings[i].id = learningId
  THEN CHOOSE i \in 1..Len(learnings) :
         /\ learnings[i].id = learningId
         /\ \A j \in 1..(i - 1) : learnings[j].id # learningId
  ELSE 0

\* the learning storeLearning builds; the id is the one generateUniqueId
\* returned (a time stamp and a random suffix)
newLearning(id, brand, content) ==
  [id |-> id, brand |-> brand, date |-> getDateString, type |-> "what_worked",
   category |-> <<"c">>, content |-> content, confidence |-> "medium"]

\* the file storeLearning leaves behind
storeLearning(id, brand, content) ==
  saveLearnings(Append(loadLearnings, newLearning(id, brand, content)))

getBrandLearnings(brandId) ==
  SelectSeq(loadLearnings, LAMBDA l : l.brand = brandId \/ l.brand = global)

\* the file deleteLearning leaves behind
deleteLearning(learningId) ==
  IF findLearning(loadLearnings, learningId) = 0 THEN learningsFile
  ELSE saveLearnings(splice(loadLearnings, findLearning(loadLearnings, learningId)))

\* updateLearningConfidence, were it to rewrite the content as well
updateLearningConfidence_Restamped(learningId, confidence) ==
  IF findLearning(loadLearnings, learningId) = 0 THEN learningsFile
  ELSE saveLearnings([loadLearnings EXCEPT
                        ![findLearning(loadLearnings, learningId)] =
                           [@ EXCEPT !.confidence = confidence,
                                     !.content = <<"updated">>]])

\* the file updateLearningConfidence leaves behind
updateLearningConfidence(learningId, confidence) ==
  IF findLearning(loadLearnings, learningId) = 0 THEN learningsFile
  ELSE saveLearnings([loadLearnings EXCEPT
                        ![findLearning(loadLearnings, learningId)].confidence = confidence])

\* promoteToGlobal, were it to change the learning it loaded without saving
promoteToGlobal_Unsaved(learningId) ==
  learningsFile

\* the file promoteToGlobal leaves behind
promoteToGlobal(learningId) ==
  IF findLearning(loadLearnings, learningId) = 0 THEN learningsFile
  ELSE saveLearnings([loadLearnings EXCEPT
                        ![findLearning(loadLearnings, learningId)].brand = global])

otherVars == <<clock, brandVars, ledgerVars, handoffFiles, historyVars, onboardingState, apiVars,
               sessionState, written>>

StoreLearning(id, brand, content) ==
  /\ Len(loadLearnings) < MaxLearnings
  /\ learningsFile' = storeLearning(id, brand, content)
  /\ last' = [Call("storeLearning") EXCEPT !.name = id, !.brand = brand]
  /\ UNCHANGED otherVars

DeleteLearning(learningId) ==
  /\ learningsFile' = deleteLearning(learningId)
  /\ last' = [Call("deleteLearning") EXCEPT
                !.name = learningId,
                !.ok = findLearning(loadLearnings, learningId) # 0]
  /\ UNCHANGED otherVars

UpdateLearningConfidence(learningId, confidence) ==
  /\ learningsFile' = updateLearningConfidence(learningId, confidence)
  /\ last' = [Call("updateLearningConfidence") EXCEPT
                !.name = learningId,
                !.ok = findLearning(loadLearnings, learningId) # 0]
  /\ UNCHANGED otherVars

PromoteToGlobal(learningId) ==
  /\ learningsFile' = promoteToGlobal(learningId)
  /\ last' = [Call("promoteToGlobal") EXCEPT
                !.name = learningId,
                !.ok = findLearning(loadLearnings, learningId) # 0]
  /\ UNCHANGED otherVars

\* Two ids, so that generateUniqueId may return an id a second time
LearningIds == {<<"learn-", "1">>, <<"learn-", "2">>}
LearningBrands == {<<"a">>, <<"b">>}
LearningContents == {<<"c">>, <<"d">>}
Confidences == {"high", "low"}

LearningsNext ==
  \/ \E i \in LearningIds, b \in LearningBrands, c \in LearningContents :
       StoreLearning(i, b, c)
  \/ \E i \in LearningIds : DeleteLearning(i)
  \/ \E i \in LearningIds, c \in Confidences : UpdateLearningConfidence(i, c)
  \/ \E i \in LearningIds : PromoteToGlobal(i)

LearningsSpec == Init /\ [][LearningsNext]_vars

-----------------------------------------------------------------------------
(* The history manager called directly *)

\* the sessions in the history file of the brand
sessionsOf(files, brandId) ==
  IF files[brandId] = Null THEN <<>> ELSE files[brandId].sessions

StartSession(brandId) ==
  /\ currentSession' = startSession(brandId)
  /\ last' = [Call("startSession") EXCEPT !.brand = brandId]
  /\ UNCHANGED <<clock, brandVars, ledgerVars, handoffFiles, historyFiles,
                 sessionState, written, learningsFile, onboardingState, apiVars>>

\* logActivity(type) returns null when no session is open
LogActivity(type) ==
  /\ currentSession # Null => Len(currentSession.activities) < MaxActivities
  /\ currentSession' = IF currentSession = Null THEN Null
                       ELSE logActivity(currentSession, type)
  /\ last' = [Call("logActivity") EXCEPT !.ok = currentSession # Null]
  /\ UNCHANGED <<clock, brandVars, ledgerVars, handoffFiles, historyFiles,
                 sessionState, written, learningsFile, onboardingState, apiVars>>

\* endSession(duration) returns null when no session is open
EndSession(duration) ==
  /\ currentSession # Null
       => Len(sessionsOf(historyFiles, currentSession.brandId)) < MaxSessions
  /\ historyFiles' = endSession(duration)
  /\ currentSession' = Null
  /\ last' = [Call("endSession") EXCEPT
                !.brand = IF currentSession = Null THEN Undefined
                          ELSE currentSession.brandId,
                !.ok = currentSession # Null]
  /\ UNCHANGED <<clock, brandVars, ledgerVars, handoffFiles, sessionState,
                 written, learningsFile, onboardingState, apiVars>>

HistoryBrands == {<<"a">>, <<"b">>}
ActivityTypes == {"keyword_research"}
Durations == {<<"5m">>}

HistoryNext ==
  \/ \E b \in HistoryBrands : StartSession(b)
  \/ \E t \in ActivityTypes : LogActivity(t)
  \/ \E d \in Durations : EndSession(d)

HistorySpec == Init /\ [][HistoryNext]_vars

-----------------------------------------------------------------------------
(* Archival memory: the relevant learnings *)

\* String.prototype.includes
stringIncludes(s, t) ==
  \E i \in 0..(Len(s) - Len(t)) : SubSeq(s, i + 1, i + Len(t)) = t

\* for (const l of matches), were it to push every match
pushUnseen_All(relevant, matches) ==
  relevant \o matches

\* for (const l of matches) if (!seen.has(l.id)) { relevant.push(l); seen.add(l.id) };
\* seen holds the ids of relevant
pushUnseen(relevant, matches) ==
  LET P[k \in 0..Len(matches)] ==
        IF k = 0 THEN relevant
        ELSE IF \E j \in 1..Len(P[k - 1]) : P[k - 1][j].id = matches[k].id
             THEN P[k - 1]
             ELSE Append(P[k - 1], matches[k])
  IN P[Len(matches)]

\* l.content.toLowerCase().includes(keyword) || l.category.toLowerCase().includes(keyword)
matchesKeyword(l, keyword) ==
  \/ stringIncludes(toLowerCase(l.content), keyword)
  \/ stringIncludes(toLowerCase(l.category), keyword)

\* for (const keyword of keywords): the matches of each keyword pushed in turn
pushKeywords(relevant, brandLearnings, keywords) ==
  LET K[k \in 0..Len(keywords)] ==
        IF k = 0 THEN relevant
        ELSE pushUnseen(K[k - 1],
               SelectSeq(brandLearnings, LAMBDA l : matchesKeyword(l, keywords[k])))
  IN K[Len(keywords)]

\* activityMap[context.activity] || []; a keyword is one token
activityMap(activity) ==
  CASE activity = <<"keyword_research">> -> << <<"keywords">>, <<"seo">>, <<"search">> >>
    [] activity = <<"content_planning">> -> << <<"content">>, <<"topics">>, <<"calendar">> >>
    [] activity = <<"competitor_analysis">> -> << <<"competitor">>, <<"analysis">>, <<"comparison">> >>
    [] activity = <<"strategy_creation">> -> << <<"strategy">>, <<"positioning">>, <<"channels">> >>
    [] OTHER -> <<>>

confOrder(confidence) ==
  CASE confidence = "high" -> 0 [] confidence = "medium" -> 1 [] confidence = "low" -> 2

\* the comparator of the final sort: confDiff, then b.date.localeCompare(a.date)
compareRelevant(a, b) ==
  IF confOrder(a.confidence) # confOrder(b.confidence)
  THEN confOrder(a.confidence) - confOrder(b.confidence)
  ELSE IF b.date < a.date THEN -1 ELSE IF b.date > a.date THEN 1 ELSE 0

\* relevant.sort(comparator), a stable sort
sortRelevant(relevant) ==
  LET insert(sorted, l) ==
        LET before == SelectSeq(sorted, LAMBDA e : compareRelevant(e, l) <= 0)
            after == SelectSeq(sorted, LAMBDA e : compareRelevant(e, l) > 0)
        IN before \o <<l>> \o after
      S[k \in 0..Len(relevant)] ==
        IF k = 0 THEN <<>> ELSE insert(S[k - 1], relevant[k])
  IN S[Len(relevant)]

\* context.keywords?.length
keywordsGiven(context) ==
  context.keywords # Undefined /\ Len(context.keywords) > 0

getRelevantLearnings(brandId, context) ==
  LET brandLearnings == getBrandLearnings(brandId)
      byCategory ==
        IF Truthy(context.category)
        THEN pushUnseen(<<>>,
               SelectSeq(brandLearnings,
                 LAMBDA l : stringIncludes(toLowerCase(l.category),
                                           toLowerCase(context.category))))
        ELSE <<>>
      byKeywords ==
        IF keywordsGiven(context)
        THEN pushKeywords(byCategory, brandLearnings,
               [k \in 1..Len(context.keywords) |-> toLowerCase(context.keywords[k])])
        ELSE byCategory
      byActivity ==
        IF Truthy(context.activity)
        THEN pushKeywords(byKeywords, brandLearnings, activityMap(context.activity))
        ELSE byKeywords
  IN IF ~Truthy(context.activity) /\ ~Truthy(context.category) /\ ~keywordsGiven(context)
     THEN sliceLast(brandLearnings, 5)
     ELSE sortRelevant(byActivity)

GetRelevantLearnings(brandId, context) ==
  /\ last' = [Call("getRelevantLearnings") EXCEPT
                !.brand = brandId, !.context = context,
                !.returned = getRelevantLearnings(brandId, context)]
  /\ UNCHANGED <<otherVars, learningsFile>>

\* The learnings a query is made over: of the brand, of another brand and
\* global ones; with a category that matches the category asked for, a
\* content that matches a keyword, or both; stored on one of two days, in the
\* order of their days, each under its own id.
RelevantTexts ==
  {[category |-> <<"S">>, content |-> <<"x">>],
   [category |-> <<"c">>, content |-> <<"seo">>],
   [category |-> <<"S">>, content |-> <<"seo">>]}
Days == {0, 1}
RelevantEntries ==
  [brand : {<<"a">>, <<"b">>, global}, text : RelevantTexts,
   confidence : {"high", "medium", "low"}, date : Days]
RelevantLearnings ==
  {[k \in 1..Len(f) |->
      [id |-> <<"learn-", ToString(k)>>, brand |-> f[k].brand, date |-> f[k].date,
       type |-> "what_worked", category |-> f[k].text.category,
       content |-> f[k].text.content, confidence |-> f[k].confidence]] :
   f \in {g \in UNION {[1..n -> RelevantEntries] : n \in 0..MaxLearnings} :
            \A i \in 1..(Len(g) - 1) : g[i].date <= g[i + 1].date}}

RelevantBrands == {<<"a">>}
Contexts ==
  {[activity |-> Undefined, category |-> Undefined, keywords |-> Undefined],
   [activity |-> Undefined, category |-> <<"s">>, keywords |-> Undefined],
   [activity |-> Undefined, category |-> Undefined, keywords |-> << <<"X">> >>],
   [activity |-> <<"keyword_research">>, category |-> <<"s">>,
    keywords |-> << <<"X">>, <<"seo">> >>]}

RelevantInit ==
  /\ clock = 1
  /\ brandFiles = [i \in Ids |-> Null]
  /\ configFile = [activeBrand |-> Undefined]
  /\ currentLedger = Null
  /\ continuityFile = Null
  /\ handoffFiles = [i \in Ids |-> Null]
  /\ currentSession = Null
  /\ historyFiles = [i \in Ids |-> Null]
  /\ sessionState = idle
  /\ last = NoCall
  /\ written = [i \in Ids |-> Null]
  /\ learningsFile \in {saveLearnings(l) : l \in RelevantLearnings}
  /\ onboardingState = Null
  /\ rateLimits = [a \in ApiNames |-> Null]
  /\ callers = [c \in Callers |-> Null]
  /\ now = 0

RelevantNext == \E b \in RelevantBrands, c \in Contexts : GetRelevantLearnings(b, c)

RelevantSpec == RelevantInit /\ [][RelevantNext]_vars

-----------------------------------------------------------------------------
(* The /brand skill: handleBrandSwitch *)

\* searchBrands(query): the ids of the brands whose name or website includes
\* the query, ignoring case (the industry of a brand is not in the model)
searchBrands(query) ==
  {i \in Ids :
     /\ brandFiles[i] # Null
     /\ \/ stringIncludes(toLowerCase(brandFiles[i].name), toLowerCase(query))
        \/ stringIncludes(toLowerCase(brandFiles[i].website), toLowerCase(query))}

\* the id of the brand handleBrandSwitch finds: the exact id, or else the one
\* match of the search; Undefined when it finds none or more than one
switchTarget(nameOrId) ==
  IF ~Truthy(nameOrId) THEN Undefined
  ELSE IF nameOrId \in Ids /\ getBrand(nameOrId) # Null THEN nameOrId
  ELSE IF Cardinality(searchBrands(nameOrId)) = 1
       THEN CHOOSE i \in searchBrands(nameOrId) : TRUE
       ELSE Undefined

\* What handleBrandSwitch leaves behind and returns, for the brand it found
switchTo(id) ==
  IF id = Undefined
  THEN [success |-> FALSE, brand |-> Undefined, message |-> Undefined,
        brandFiles |-> brandFiles, configFile |-> configFile,
        ledger |-> currentLedger, continuityFile |-> continuityFile]
  ELSE [success |-> TRUE, brand |-> id,
        message |-> IF hasHandoff(id) THEN formatHandoffDisplay(getHandoff(id))
                    ELSE <<"No previous session context.">>,
        brandFiles |-> setActiveBrandFiles(brandFiles, id),
        configFile |-> setActiveBrandConfig(id),
        ledger |-> initLedger(id, getBrand(id).name, Undefined),
        continuityFile |-> initLedger(id, getBrand(id).name, Undefined)]

handleBrandSwitch(nameOrId) == switchTo(switchTarget(nameOrId))

HandleBrandSwitch(nameOrId) ==
  \E r \in {handleBrandSwitch(nameOrId)} :
     /\ brandFiles' = r.brandFiles
     /\ configFile' = r.configFile
     /\ currentLedger' = r.ledger
     /\ continuityFile' = r.continuityFile
     /\ last' = [Call("handleBrandSwitch") EXCEPT
                   !.brand = r.brand, !.name = nameOrId, !.ok = r.success,
                   !.resume = r.message]
     /\ UNCHANGED <<clock, handoffFiles, historyVars, sessionState, written,
                    learningsFile, onboardingState, apiVars>>

\* an id, a name in upper case, the website of every brand, nothing, and the
\* id of no brand
SwitchArgs == {<<"a">>, <<"b">>, <<"A">>, <<"w">>, <<>>, <<"z">>}

SwitchNext ==
  \/ \E n \in BrandNames, w \in Websites : CreateBrand(n, w)
  \/ \E a \in SwitchArgs : HandleBrandSwitch(a)
  \/ \E t \in HandoffTasks : AddInProgressTask(t)
  \/ AddBlocker(<<"b">>)

SwitchSpec == Init /\ [][SwitchNext]_vars

\* What finishOnboarding leaves behind for the collected name and website;
\* it returns null when one of them is missing or createBrand throws.
finishOnboarding(name, website) ==
  LET r == createBrand(name, website)
  IN IF ~(Truthy(name) /\ Truthy(website)) \/ ~r.ok
     THEN [ok |-> FALSE, brandFiles |-> brandFiles, configFile |-> configFile,
           ledger |-> currentLedger, continuityFile |-> continuityFile]
     ELSE [ok |-> TRUE, brandFiles |-> r.brandFiles, configFile |-> r.configFile,
           ledger |-> initLedger(generateId(name), name, <<"Initial setup">>),
           continuityFile |-> initLedger(generateId(name), name, <<"Initial setup">>)]

FinishOnboarding(name, website) ==
  \E r \in {finishOnboarding(name, website)} :
     /\ brandFiles' = r.brandFiles
     /\ configFile' = r.configFile
     /\ currentLedger' = r.ledger
     /\ continuityFile' = r.continuityFile
     /\ last' = [Call("finishOnboarding") EXCEPT
                   !.brand = IF Truthy(name) THEN generateId(name) ELSE Undefined,
                   !.name = name, !.ok = r.ok]
     /\ UNCHANGED <<clock, handoffFiles, historyVars, sessionState, written,
                    learningsFile, onboardingState, apiVars>>

\* beginSession(brandId, goal); a tick of the clock passes in every session.
BeginSession(brandId, goal) ==
  LET r == beginSession(brandId, goal)
  IN /\ clock < MaxClock
     /\ clock' = clock + 1
     /\ configFile' = r.configFile
     /\ brandFiles' = r.brandFiles
     /\ currentLedger' = r.ledger
     /\ continuityFile' = r.continuityFile
     /\ currentSession' = r.currentSession
     /\ handoffFiles' = r.handoffFiles
     /\ sessionState' = r.sessionState
     /\ last' = [Call("beginSession") EXCEPT !.brand = brandId, !.ok = r.success,
                                             !.resume = r.resumeContext]
     /\ UNCHANGED <<historyFiles, written, learningsFile, onboardingState, apiVars>>

\* finishSession(options); written records, for the brand of the session, the
\* handoff this call created (Null when it created none), and Skipped from
\* the first finishSession of the brand that was told to create none.
FinishSession(options) ==
  LET r == finishSession(options)
  IN /\ handoffFiles' = r.handoffFiles
     /\ historyFiles' = r.historyFiles
     /\ currentSession' = r.currentSession
     /\ currentLedger' = r.ledger
     /\ continuityFile' = r.continuityFile
     /\ sessionState' = r.sessionState
     /\ written' = IF ~r.success THEN written
                   ELSE [written EXCEPT ![sessionState.brand.id] =
                           IF @ = Skipped \/ ~options.createHandoff
                           THEN Skipped ELSE r.created]
     /\ last' = [Call("finishSession") EXCEPT
                   !.brand = IF r.success THEN sessionState.brand.id ELSE Undefined,
                   !.ok = r.success, !.createHandoff = options.createHandoff]
     /\ UNCHANGED <<clock, brandVars, learningsFile, onboardingState, apiVars>>

CheckAndRestoreSession ==
  /\ IF getActiveBrand # Null /\ getLedger # Null
     THEN /\ sessionState' = [brand |-> getActiveBrand, handoff |-> Null,
                              isActive |-> TRUE, startTime |-> <<clock>>]
          /\ currentLedger' = getLedger
          /\ last' = [Call("checkAndRestoreSession") EXCEPT !.brand = getActiveBrand.id]
     ELSE /\ UNCHANGED <<sessionState, currentLedger>>
          /\ last' = [Call("checkAndRestoreSession") EXCEPT !.ok = FALSE]
  /\ UNCHANGED <<clock, brandVars, continuityFile, handoffFiles, historyVars, written, learningsFile, onboardingState, apiVars>>

\* The process ends and the plugin is loaded again: the module variables
\* currentLedger, currentSession and sessionState start from their
\* initialisers, the files stay.
Restart ==
  /\ currentLedger' = Null
  /\ currentSession' = Null
  /\ sessionState' = idle
  /\ last' = Call("restart")
  /\ UNCHANGED <<clock, brandVars, continuityFile, handoffFiles, historyFiles, written, learningsFile, onboardingState, apiVars>>

SessionBrands == {<<"A">>}
SessionIds == {generateId(n) : n \in SessionBrands} \cup {<<"z">>}
SessionTasks == {<<"x">>}
SessionSteps == {[given |-> FALSE]}

Next ==
  \/ \E n \in SessionBrands, w \in Websites : CreateBrand(n, w)
  \/ \E i \in SessionIds : BeginSession(i, Undefined)
  \/ \E o \in FinishOptions(SessionSteps) : FinishSession(o)
  \/ \E t \in SessionTasks : AddInProgressTask(t)
  \/ CheckAndRestoreSession
  \/ Restart

Spec == Init /\ [][Next]_vars

\* Every ledger operation, with the process ending and starting again in
\* between (the ledger is then loaded from its file)
WriteThroughNext ==
  \/ \E g \in Goals : InitLedger(<<"a">>, <<"A">>, g)
  \/ \E t \in HandoffTasks : AddInProgressTask(t)
  \/ \E t \in HandoffTasks : AddCompletedTask(t, Undefined)
  \/ \E t \in HandoffTasks : CompleteTask(t, Undefined)
  \/ \E t \in HandoffTasks : UpdateTaskProgress(t, <<"r">>)
  \/ AddBlocker(<<"b">>)
  \/ RemoveBlocker(<<"B">>)
  \/ AddLedgerNote(<<"n">>)
  \/ SetGoal(<<"g">>)
  \/ Restart

WriteThroughSpec == Init /\ [][WriteThroughNext]_vars

\* Sessions of one brand with every ledger mutator, called during a session
\* and after it; sessions that resume from a stored handoff are in Spec.
LifecycleNext ==
  \/ \E n \in SessionBrands, w \in Websites : CreateBrand(n, w)
  \/ NoHandoffYet /\ \E i \in SessionIds : BeginSession(i, Undefined)
  \/ \E o \in FinishOptions(SessionSteps) : FinishSession(o)
  \/ \E t \in SessionTasks : AddInProgressTask(t)
  \/ \E t \in SessionTasks : CompleteTask(t, <<"r">>)
  \/ AddBlocker(<<"b">>)
  \/ AddLedgerNote(<<"n">>)
  \/ SetGoal(<<"g">>)

LifecycleSpec == Init /\ [][LifecycleNext]_vars

\* Sessions of one brand with activities logged to the open history session,
\* and the process ending and starting again
PersistNext ==
  \/ \E n \in SessionBrands, w \in Websites : CreateBrand(n, w)
  \/ NoHandoffYet /\ \E i \in SessionIds : BeginSession(i, Undefined)
  \/ \E o \in FinishOptions(SessionSteps) : FinishSession(o)
  \/ \E t \in ActivityTypes : LogActivity(t)
  \/ CheckAndRestoreSession
  \/ Restart

PersistSpec == Init /\ [][PersistNext]_vars

\* The functions that write the active-brand pointer or the brand records;
\* a session begins while no history session is open.
PointerNext ==
  \/ \E n \in BrandNames, w \in Websites : CreateBrand(n, w)
  \/ \E i \in Ids : UpdateBrand(i, [name |-> <<"N">>])
  \/ \E i \in Ids : DeleteBrand(i)
  \/ \E i \in Ids \cup {Undefined} : SetActiveBrand(i)
  \/ currentSession = Null /\ \E i \in SessionIds : BeginSession(i, Undefined)

PointerSpec == Init /\ [][PointerNext]_vars

\* The functions that set the coordinator state, the active brand and the
\* ledger, for two brands; a session begins while no history session is open
\* or stored and no handoff is stored.
NoHistoryYet == currentSession = Null /\ \A i \in Ids : historyFiles[i] = Null

CoordIds == {generateId(n) : n \in BrandNames}

CoordNext ==
  \/ \E n \in BrandNames, w \in Websites : FinishOnboarding(n, w)
  \/ /\ NoHandoffYet /\ NoHistoryYet
     /\ \E i \in CoordIds : BeginSession(i, Undefined)
  \/ FinishSession([createHandoff |-> TRUE, nextSteps |-> [given |-> FALSE]])
  \/ CheckAndRestoreSession
  \/ \E a \in CoordIds : HandleBrandSwitch(a)
  \/ ClearLedger

CoordSpec == Init /\ [][CoordNext]_vars

-----------------------------------------------------------------------------
(* The /start skill: the questions of the onboarding *)

\* the longest list of skipped fields the model follows
MaxSkipped == 4

\* String.prototype.trim over the tokens of a string
RECURSIVE trimStart(_)
trimStart(s) == IF Len(s) > 0 /\ Head(s) = " " THEN trimStart(Tail(s)) ELSE s

RECURSIVE trimEnd(_)
trimEnd(s) ==
  IF Len(s) > 0 /\ s[Len(s)] = " " THEN trimEnd(SubSeq(s, 1, Len(s) - 1)) ELSE s

trim(s) == trimEnd(trimStart(s))

\* state.collected[field], undefined when the key is absent
collectedValue(state, field) ==
  IF field \in DOMAIN state.collected THEN state.collected[field] ELSE Undefined

initOnboarding == [step |-> "welcome", collected |-> [f \in {} |-> Undefined], skipped |-> <<>>]

\* the question to ask next: its field and whether it is optional, or null
getNextQuestion(state) ==
  IF ~Truthy(collectedValue(state, "name"))
  THEN [field |-> "name", optional |-> FALSE]
  ELSE IF ~Truthy(collectedValue(state, "website"))
  THEN [field |-> "website", optional |-> FALSE]
  ELSE IF ~Truthy(collectedValue(state, "industry")) /\ ~includes(state.skipped, "industry")
  THEN [field |-> "industry", optional |-> TRUE]
  ELSE IF ~Truthy(collectedValue(state, "product")) /\ ~includes(state.skipped, "product")
  THEN [field |-> "product", optional |-> TRUE]
  ELSE IF /\ ~Truthy(collectedValue(state, "audienceDescription"))
          /\ ~includes(state.skipped, "audience")
  THEN [field |-> "audienceDescription", optional |-> TRUE]
  ELSE IF "competitors" \notin DOMAIN state.collected /\ ~includes(state.skipped, "competitors")
  THEN [field |-> "competitors", optional |-> TRUE]
  ELSE Null

goBackPatterns ==
  {<<"go", " ", "back">>, <<"wait">>, <<"change", " ", "that">>, <<"fix", " ", "that">>,
   <<"undo">>, <<"previous">>, <<"back">>, <<"correction">>,
   <<"let", " ", "me", " ", "correct">>, <<"actually", " ", "no">>}

\* a pattern is found when its words are words of the response
isGoBackRequest(response) ==
  \E pattern \in goBackPatterns : stringIncludes(trim(toLowerCase(response)), pattern)

stepOrder ==
  <<"welcome", "name", "website", "industry", "product", "audience", "competitors",
    "current_marketing", "complete">>

\* the step before currentStep, or null at welcome and name
getPreviousStep(currentStep) ==
  LET currentIndex == CHOOSE i \in 1..Len(stepOrder) : stepOrder[i] = currentStep
  IN IF currentIndex <= 2 THEN Null ELSE [step |-> stepOrder[currentIndex - 1]]

stepToField(step) ==
  CASE step = "audience" -> "audienceDescription"
    [] step \in {"name", "website", "industry", "product", "competitors"} -> step
    [] OTHER -> "none"

\* the state one step back, its field cleared and no longer skipped, or null
goBackOneStep(state) ==
  LET previousStep == getPreviousStep(state.step)
  IN IF previousStep = Null THEN Null
     ELSE LET previousField == stepToField(previousStep.step)
          IN [step |-> previousStep.step,
              collected |-> [f \in DOMAIN state.collected \ {previousField}
                               |-> state.collected[f]],
              skipped |-> SelectSeq(state.skipped, LAMBDA x : x # previousField)]

\* the answers that skip a question
isSkip(lower) ==
  lower \in {<<"skip">>, <<"no">>, <<"don't", " ", "know">>, <<"not", " ", "sure">>}

\* .replace(/^https?:\/\//, '').replace(/^www\./, '').replace(/\/$/, '')
cleanOnboardingWebsite(value) ==
  LET v1 == IF Len(value) > 0 /\ Head(value) \in {"http://", "https://"}
            THEN Tail(value) ELSE value
      v2 == IF Len(v1) > 0 /\ Head(v1) = "www." THEN Tail(v1) ELSE v1
  IN IF Len(v2) > 0 /\ v2[Len(v2)] = "/" THEN SubSeq(v2, 1, Len(v2) - 1) ELSE v2

\* response.split(/[,\n]+/): the pieces between the commas, the last one in `piece`
RECURSIVE splitList(_, _)
splitList(s, piece) ==
  IF s = <<>> THEN <<piece>>
  ELSE IF Head(s) = "," THEN <<piece>> \o splitList(Tail(s), <<>>)
  ELSE splitList(Tail(s), Append(piece, Head(s)))

\* the pieces of a comma-separated answer, trimmed, the empty ones left out
parseList(response) ==
  LET pieces == splitList(response, <<>>)
      trimmed == [i \in 1..Len(pieces) |-> trim(pieces[i])]
  IN SelectSeq(trimmed, LAMBDA x : x # <<>>)

\* processResponse(state, field, response): the state after the reply, and
\* whether the reply went one step back
processResponse(state, field, response) ==
  LET lower == trim(toLowerCase(response))
      value == IF field = "website" THEN cleanOnboardingWebsite(trim(response))
               ELSE IF field = "competitors" THEN parseList(response)
               ELSE trim(response)
  IN IF isGoBackRequest(response) /\ goBackOneStep(state) # Null
     THEN [goBack |-> TRUE, state |-> goBackOneStep(state)]
     ELSE IF isSkip(lower)
     THEN [goBack |-> FALSE,
           state |-> [state EXCEPT !.skipped = Append(state.skipped, field)]]
     ELSE [goBack |-> FALSE,
           state |-> [state EXCEPT !.collected =
                        [f \in DOMAIN state.collected \cup {field} |->
                           IF f = field THEN value ELSE state.collected[f]]]]

canCreateBrand(state) ==
  Truthy(collectedValue(state, "name")) /\ Truthy(collectedValue(state, "website"))

onboardingFrame ==
  <<clock, brandVars, ledgerVars, handoffFiles, historyVars, sessionState, written,
    learningsFile, apiVars>>

InitOnboarding ==
  /\ onboardingState' = initOnboarding
  /\ last' = Call("initOnboarding")
  /\ UNCHANGED onboardingFrame

\* one turn of the skill: the question of getNextQuestion is asked and the
\* reply is given to processResponse with the field of that question
AskAndProcess(response) ==
  /\ onboardingState # Null
  /\ getNextQuestion(onboardingState) # Null
  /\ Len(onboardingState.skipped) < MaxSkipped
  /\ LET question == getNextQuestion(onboardingState)
         r == processResponse(onboardingState, question.field, response)
     IN /\ onboardingState' = r.state
        /\ last' = [Call("processResponse") EXCEPT
                      !.context = [field |-> question.field, optional |-> question.optional,
                                   response |-> response],
                      !.hit = ~r.goBack /\ isSkip(trim(toLowerCase(response)))]
  /\ UNCHANGED onboardingFrame

Responses ==
  {<<"skip">>, <<" ", "Skip">>, <<"https://", "www.", "x", "/">>,
   <<"x", ",", " ", "y", ",">>, <<"back">>, <<>>}

OnboardingNext ==
  \/ InitOnboarding
  \/ \E response \in Responses : AskAndProcess(response)

OnboardingSpec == Init /\ [][OnboardingNext]_vars

-----------------------------------------------------------------------------
(* api-base.ts: rateLimit *)

\* the last instant of the model, in steps of 500 ms
MaxNow == 5

\* the minIntervalMs each integration passes, in steps of 500 ms
\* (semrush 1000 ms, ahrefs 2000 ms)
minIntervalOf(apiName) == IF apiName = "ahrefs" THEN 4 ELSE 2

apiFrame ==
  <<clock, brandVars, ledgerVars, handoffFiles, historyVars, sessionState, written,
    learningsFile, onboardingState>>

\* rateLimit(apiName, minIntervalMs) up to its await: with no limit on record,
\* or one that has elapsed, the call runs to its end, records the instant and
\* resolves; otherwise it sets a timer for the rest of the recorded interval
RateLimit(c, apiName, minIntervalMs) ==
  /\ callers[c] = Null
  /\ LET limit == rateLimits[apiName]
     IN IF limit # Null /\ now - limit.lastCall < limit.minInterval
        THEN /\ callers' = [callers EXCEPT ![c] =
                              [apiName |-> apiName, minIntervalMs |-> minIntervalMs,
                               wakeAt |-> now + (limit.minInterval - (now - limit.lastCall))]]
             /\ UNCHANGED rateLimits
             /\ last' = [Call("rateLimit") EXCEPT
                           !.context = [apiName |-> apiName, caller |-> c], !.hit = FALSE]
        ELSE /\ rateLimits' = [rateLimits EXCEPT ![apiName] =
                                 [lastCall |-> now, minInterval |-> minIntervalMs]]
             /\ UNCHANGED callers
             /\ last' = [Call("rateLimit") EXCEPT
                           !.context = [apiName |-> apiName, caller |-> c], !.hit = TRUE]
  /\ UNCHANGED <<now, apiFrame>>

\* the timer of a waiting call fires, at its instant or later: the call
\* records Date.now() and resolves
RateLimitResume(c) ==
  /\ callers[c] # Null
  /\ now >= callers[c].wakeAt
  /\ rateLimits' = [rateLimits EXCEPT ![callers[c].apiName] =
                      [lastCall |-> now, minInterval |-> callers[c].minIntervalMs]]
  /\ callers' = [callers EXCEPT ![c] = Null]
  /\ last' = [Call("rateLimit") EXCEPT
                !.context = [apiName |-> callers[c].apiName, caller |-> c], !.hit = TRUE]
  /\ UNCHANGED <<now, apiFrame>>

\* 500 ms pass
Tick ==
  /\ now < MaxNow
  /\ now' = now + 1
  /\ last' = Call("tick")
  /\ UNCHANGED <<rateLimits, callers, apiFrame>>

RateLimitNext ==
  \/ \E c \in Callers, apiName \in ApiNames : RateLimit(c, apiName, minIntervalOf(apiName))
  \/ \E c \in Callers : RateLimitResume(c)
  \/ Tick

RateLimitSpec == Init /\ [][RateLimitNext]_vars

-----------------------------------------------------------------------------
(* Claims about the continuity ledger, under LedgerSpec *)

\* the sequence without its i-th element
Without(seq, i) == SubSeq(seq, 1, i - 1) \o SubSeq(seq, i + 1, Len(seq))

EqualIgnoringCase(s, t) == toLowerCase(s) = toLowerCase(t)

InProgressMatches(ledger, task) ==
  {i \in 1..Len(ledger.inProgress) : EqualIgnoringCase(ledger.inProgress[i].task, task)}

\* C4: in every reachable ledger state no task text, compared ignoring case,
\* is in both the completed list and the in-progress list.
C4_NoTaskInBothLists ==
  currentLedger # Null =>
    \A i \in 1..Len(currentLedger.completed), j \in 1..Len(currentLedger.inProgress) :
      ~EqualIgnoringCase(currentLedger.completed[i].task, currentLedger.inProgress[j].task)

\* C5: the blocker list never holds two entries that are equal ignoring case
\* (addBlocker dedups ignoring case).
C5_BlockersSetIgnoringCase ==
  currentLedger # Null =>
    \A i, j \in 1..Len(currentLedger.blockers) :
      i # j => ~EqualIgnoringCase(currentLedger.blockers[i], currentLedger.blockers[j])

\* What C6 says of a completeTask(task, result) step that finds `task` in
\* progress, with `stored` the result the appended entry is to carry.
C6_Moves(task, stored(_)) ==
  LET old == getLedger
      new == currentLedger'
  IN \E i \in InProgressMatches(old, task) :
       /\ new.inProgress = Without(old.inProgress, i)
       /\ Len(new.completed) = Len(old.completed) + 1
       /\ SubSeq(new.completed, 1, Len(old.completed)) = old.completed
       /\ new.completed[Len(new.completed)].task = old.inProgress[i].task
       /\ new.completed[Len(new.completed)].result = stored(old.inProgress[i])
       /\ new.blockers = old.blockers
       /\ new.notes = old.notes
       /\ new.goal = old.goal
       /\ continuityFile' = new

\* C6 as claimed: completeTask(t, r) on a ledger with an in-progress entry
\* matching t ignoring case removes exactly that entry from in-progress and
\* appends one entry for it to completed with result r; the other entries,
\* the blockers, the notes and the goal are unchanged.
C6_Original ==
  [][\A t \in Tasks, r \in Results :
       (/\ last'.op = "completeTask" /\ getLedger # Null
        /\ CompleteTask(t, r) /\ InProgressMatches(getLedger, t) # {})
         => C6_Moves(t, LAMBDA e : r)]_vars

\* C6 as amended: the appended entry carries r when r is given and not
\* empty, and otherwise the result the in-progress entry already had.
C6_CompleteTaskMoves ==
  [][\A t \in Tasks, r \in Results :
       (/\ last'.op = "completeTask" /\ getLedger # Null
        /\ CompleteTask(t, r) /\ InProgressMatches(getLedger, t) # {})
         => C6_Moves(t, LAMBDA e : IF r \in {Undefined, <<>>} THEN e.result ELSE r)]_vars

\* C6 witness: completeTask has just moved an entry that had a progress
\* result, leaving another entry in progress, with a blocker, a note and a goal.
C6_Witness ==
  /\ last.op = "completeTask" /\ last.hit
  /\ currentLedger # Null
  /\ Len(currentLedger.inProgress) >= 1
  /\ Len(currentLedger.completed) >= 1
  /\ Len(currentLedger.blockers) >= 1
  /\ Len(currentLedger.notes) >= 1
  /\ currentLedger.goal # Undefined

\* C7 as claimed: completeTask(Y, r) for Y not in progress leaves in-progress
\* as it is and puts Y in completed, and a second identical call leaves the
\* completed list as it was after the first.
C7_Original ==
  [][\A t \in Tasks, r \in Results :
       (/\ last'.op = "completeTask" /\ getLedger # Null
        /\ CompleteTask(t, r) /\ InProgressMatches(getLedger, t) = {})
         => LET old == getLedger
                new == currentLedger'
                n == Len(old.completed)
            IN /\ new.inProgress = old.inProgress
               /\ \E i \in 1..Len(new.completed) : new.completed[i].task = t
               /\ (/\ last.op = "completeTask" /\ ~last.hit /\ n > 0
                   /\ old.completed[n].task = t /\ old.completed[n].result = r)
                  => new.completed = old.completed]_vars

\* C7 as amended: completeTask(Y, r) for Y not in progress leaves in-progress
\* as it is and appends the entry (Y, r) to completed, on every call: a second
\* identical call appends a second entry.
C7_CompleteUntrackedAppends ==
  [][\A t \in Tasks, r \in Results :
       (/\ last'.op = "completeTask" /\ getLedger # Null
        /\ CompleteTask(t, r) /\ InProgressMatches(getLedger, t) = {})
         => LET old == getLedger
                new == currentLedger'
            IN /\ new.inProgress = old.inProgress
               /\ Len(new.completed) = Len(old.completed) + 1
               /\ SubSeq(new.completed, 1, Len(old.completed)) = old.completed
               /\ new.completed[Len(new.completed)].task = t
               /\ new.completed[Len(new.completed)].result = r]_vars

\* C7 witness: completeTask of a task that was not in progress has just
\* appended the same entry a second time.
C7_Witness ==
  /\ last.op = "completeTask" /\ ~last.hit
  /\ currentLedger # Null
  /\ LET n == Len(currentLedger.completed)
     IN /\ n >= 2
        /\ currentLedger.completed[n].task = currentLedger.completed[n - 1].task
        /\ currentLedger.completed[n].result = currentLedger.completed[n - 1].result

-----------------------------------------------------------------------------
(* Claims about createHandoff, under HandoffSpec *)

\* C3: the handoff createHandoff writes has brandId equal to the ledger's and
\* lastSession.completed, inProgress and deferred equal, element by element
\* and in order, to the ledger's completed tasks (task, result), in-progress
\* tasks (task, progress = result) and blockers.
C3_HandoffMirrorsLedger ==
  (last.op = "createHandoff" /\ last.ok) =>
    LET L == currentLedger
        h == handoffFiles[L.brandId]
    IN /\ h # Null
       /\ h.brandId = L.brandId
       /\ Len(h.lastSession.completed) = Len(L.completed)
       /\ \A i \in 1..Len(L.completed) :
            /\ h.lastSession.completed[i].task = L.completed[i].task
            /\ h.lastSession.completed[i].result = L.completed[i].result
       /\ Len(h.lastSession.inProgress) = Len(L.inProgress)
       /\ \A i \in 1..Len(L.inProgress) :
            /\ h.lastSession.inProgress[i].task = L.inProgress[i].task
            /\ h.lastSession.inProgress[i].progress = L.inProgress[i].result
       /\ Len(h.lastSession.deferred) = Len(L.blockers)
       /\ \A i \in 1..Len(L.blockers) : h.lastSession.deferred[i].task = L.blockers[i]

\* C3 witness: createHandoff has just written the handoff of a ledger with a
\* completed task, an in-progress task that has a progress result, and two blockers.
C3_Witness ==
  /\ last.op = "createHandoff" /\ last.ok
  /\ Len(currentLedger.completed) >= 1
  /\ Len(currentLedger.inProgress) >= 1
  /\ currentLedger.inProgress[1].result = <<"r">>
  /\ Len(currentLedger.blockers) >= 2

-----------------------------------------------------------------------------
(* Claims about sessions, under Spec *)

\* the lists of handoff h are those of ledger L, element by element
Mirrors(h, L) ==
  /\ h.brandId = L.brandId
  /\ Len(h.lastSession.completed) = Len(L.completed)
  /\ \A i \in 1..Len(L.completed) :
       /\ h.lastSession.completed[i].task = L.completed[i].task
       /\ h.lastSession.completed[i].result = L.completed[i].result
  /\ Len(h.lastSession.inProgress) = Len(L.inProgress)
  /\ \A i \in 1..Len(L.inProgress) :
       /\ h.lastSession.inProgress[i].task = L.inProgress[i].task
       /\ h.lastSession.inProgress[i].progress = L.inProgress[i].result
  /\ Len(h.lastSession.deferred) = Len(L.blockers)
  /\ \A i \in 1..Len(L.blockers) : h.lastSession.deferred[i].task = L.blockers[i]

\* C1: after finishSession succeeds with createHandoff not false, getHandoff
\* of the session's brand returns the handoff built from the ledger of the
\* session just ended, also when a handoff of the brand was loaded at
\* beginSession.
C1_FinishLeavesNewHandoff ==
  [][(/\ last'.op = "finishSession" /\ last'.ok /\ last'.createHandoff
      /\ getLedger # Null /\ getLedger.brandId = sessionState.brand.id)
       => /\ handoffFiles'[sessionState.brand.id] # Null
          /\ Mirrors(handoffFiles'[sessionState.brand.id], getLedger)
          /\ handoffFiles'[sessionState.brand.id].created = getTimestamp]_vars

\* C2: when every finishSession of a brand so far created a handoff, a
\* beginSession of the brand that follows one returns the resumeContext built
\* from the handoff the preceding finishSession of the brand wrote.
C2_BeginResumesFromLastFinish ==
  (/\ last.op = "beginSession" /\ last.ok
   /\ written[last.brand] \notin {Null, Skipped}
   /\ written[last.brand].brandId = last.brand)
    => last.resume = formatHandoffDisplay(written[last.brand])

\* C8: beginSession(id) for an id without a brand record returns
\* success = false and leaves the active-brand pointer, the brand records, the
\* ledger in memory and on disk, the open history session, the history files,
\* the handoff files and the coordinator state as they were.
C8_BeginMissingBrandChangesNothing ==
  [][(last'.op = "beginSession" /\ getBrand(last'.brand) = Null)
       => /\ ~last'.ok
          /\ last'.resume = Undefined
          /\ UNCHANGED <<configFile, brandFiles, currentLedger, continuityFile,
                         currentSession, historyFiles, handoffFiles, sessionState>>]_vars

\* C8 witness: beginSession of a missing brand has just failed during an
\* active session of another brand, with a ledger, an open history session,
\* an active-brand pointer and a stored handoff in place.
C8_Witness ==
  /\ last.op = "beginSession" /\ ~last.ok
  /\ getBrand(last.brand) = Null
  /\ sessionState.isActive /\ sessionState.brand.id # last.brand
  /\ currentLedger # Null /\ continuityFile # Null
  /\ currentSession # Null
  /\ Truthy(configFile.activeBrand)
  /\ \E i \in Ids : handoffFiles[i] # Null

\* C9: finishSession while the coordinator is idle returns success = false
\* and changes nothing: the handoff files, the history files, the open history
\* session, the ledger in memory and on disk and the coordinator state are as
\* they were.
C9_FinishIdleChangesNothing ==
  [][(/\ last'.op = "finishSession"
      /\ (~sessionState.isActive \/ sessionState.brand = Null))
       => /\ ~last'.ok
          /\ UNCHANGED <<handoffFiles, historyFiles, currentSession, currentLedger,
                         continuityFile, sessionState, configFile, brandFiles>>]_vars

\* C9 witness: finishSession has just failed in an idle coordinator while a
\* ledger was on disk and a handoff was stored.
C9_Witness ==
  /\ last.op = "finishSession" /\ ~last.ok
  /\ ~sessionState.isActive
  /\ continuityFile # Null
  /\ \E i \in Ids : handoffFiles[i] # Null

\* C10: beginSession(brand) leaves the stored handoff of the brand as it was,
\* and a stored handoff is cleared by finishSession only.
C10_BeginKeepsHandoff ==
  [][/\ last'.op = "beginSession"
          => handoffFiles'[last'.brand] = handoffFiles[last'.brand]
     /\ \A i \in Ids :
          (handoffFiles[i] # Null /\ handoffFiles'[i] = Null)
            => last'.op = "finishSession"]_vars

\* C10 witness: beginSession has just loaded a stored handoff, returned its
\* resumeContext, and the handoff is still stored.
C10_Witness ==
  /\ last.op = "beginSession" /\ last.ok
  /\ handoffFiles[last.brand] # Null
  /\ sessionState.handoff = handoffFiles[last.brand]
  /\ last.resume = formatHandoffDisplay(handoffFiles[last.brand])

-----------------------------------------------------------------------------
(* Claims about the end of a session, under LifecycleSpec *)

Mutators == {"addInProgressTask", "completeTask", "addBlocker", "addLedgerNote", "setGoal"}

\* C11: a successful finishSession, whatever its options, leaves no ledger in
\* memory or on disk and no active session; and while there is no ledger
\* (until the next initLedger) addInProgressTask, completeTask, addBlocker,
\* addLedgerNote and setGoal change nothing.
C11_NoLedgerAfterFinish ==
  [][/\ (last'.op = "finishSession" /\ last'.ok)
          => /\ currentLedger' = Null /\ continuityFile' = Null
             /\ getLedger' = Null
             /\ ~sessionState'.isActive
     /\ (last'.op \in Mutators /\ getLedger = Null)
          => UNCHANGED <<ledgerVars, brandVars, handoffFiles, historyVars,
                         sessionState>>]_vars

\* C11 witness: a ledger mutator has just been called after a session that
\* had a ledger with entries was finished with its handoff, and there is
\* still no ledger.
C11_Witness ==
  /\ last.op \in Mutators
  /\ currentLedger = Null /\ continuityFile = Null
  /\ ~sessionState.isActive
  /\ \E i \in Ids :
       /\ historyFiles[i] # Null
       /\ handoffFiles[i] # Null
       /\ Len(handoffFiles[i].lastSession.inProgress) > 0

-----------------------------------------------------------------------------
(* Claims about the persistence of the ledger, under WriteThroughSpec *)

\* C12: write-through: in every state between operations the ledger in
\* memory, when there is one, equals the continuity record on disk.
C12_WriteThrough ==
  currentLedger # Null => continuityFile = currentLedger

\* C12 witness: updateTaskProgress has just changed an entry of a ledger with
\* a blocker and a note, and the file holds the change.
C12_Witness ==
  /\ last.op = "updateTaskProgress" /\ last.hit
  /\ currentLedger # Null
  /\ continuityFile = currentLedger
  /\ \E i \in 1..Len(currentLedger.inProgress) :
       currentLedger.inProgress[i].result = <<"r">>
  /\ Len(currentLedger.blockers) > 0
  /\ Len(currentLedger.notes) > 0

-----------------------------------------------------------------------------
(* Claims about the default next steps, under HandoffSpec *)

\* C13: createHandoff without nextSteps derives one "Continue: <task>" step
\* per in-progress task in ledger order, then one "Resolve blocker: <blocker>"
\* step per blocker in ledger order, with priorities 1..n in that order; when
\* both lists are empty it derives the single step "Continue working on:
\* <goal>" of priority 1 if a goal (a text that is not empty) is set, and no
\* step otherwise.
C13_DefaultNextSteps ==
  [][\A n \in StepArgs :
       (/\ last'.op = "createHandoff" /\ last'.ok
        /\ ~n.given /\ CreateHandoff(n))
         => LET L == getLedger
                steps == handoffFiles'[L.brandId].nextSteps
                nIn == Len(L.inProgress)
                nBl == Len(L.blockers)
            IN IF nIn + nBl > 0
               THEN /\ Len(steps) = nIn + nBl
                    /\ \A i \in 1..(nIn + nBl) : steps[i].priority = i
                    /\ \A i \in 1..nIn :
                         steps[i].task = <<"Continue: ">> \o L.inProgress[i].task
                    /\ \A i \in 1..nBl :
                         steps[nIn + i].task = <<"Resolve blocker: ">> \o L.blockers[i]
               ELSE IF L.goal \notin {Undefined, <<>>}
               THEN /\ Len(steps) = 1
                    /\ steps[1].priority = 1
                    /\ steps[1].task = <<"Continue working on: ">> \o L.goal
               ELSE steps = <<>>]_vars

\* C13 witness: createHandoff has just derived the steps of a ledger with a
\* goal, an in-progress task and a blocker (no nextSteps argument of the model
\* has two steps).
C13_Witness ==
  /\ last.op = "createHandoff" /\ last.ok
  /\ currentLedger # Null
  /\ currentLedger.goal = <<"g">>
  /\ Len(currentLedger.inProgress) >= 1
  /\ Len(currentLedger.blockers) >= 1
  /\ Len(handoffFiles[currentLedger.brandId].nextSteps) >= 2

-----------------------------------------------------------------------------
(* Claims about the stored step list, under StepsSpec *)

\* C14: removeNextStep(brand, i) with 0 <= i < length on a stored handoff
\* leaves the stored step list equal to the old list without element i, with
\* priorities 1..n in list order, and the rest of the handoff as it was; with
\* an index out of range it leaves the stored handoff unchanged.
C14_RemoveNextStepRenumbers ==
  [][\A b \in StepBrands, i \in StepIndexes :
       (/\ last'.op = "removeNextStep" /\ getHandoff(b) # Null
        /\ RemoveNextStep(b, i))
         => LET old == handoffFiles[b]
                new == handoffFiles'[b]
                kept == Without(old.nextSteps, i + 1)
            IN IF i >= 0 /\ i < Len(old.nextSteps)
               THEN /\ new # Null
                    /\ Len(new.nextSteps) = Len(old.nextSteps) - 1
                    /\ \A k \in 1..Len(new.nextSteps) :
                         /\ new.nextSteps[k].priority = k
                         /\ new.nextSteps[k].task = kept[k].task
                         /\ new.nextSteps[k].context = kept[k].context
                    /\ new = [old EXCEPT !.nextSteps = new.nextSteps]
                    /\ \A o \in Ids \ {b} : handoffFiles'[o] = handoffFiles[o]
               ELSE handoffFiles' = handoffFiles]_vars

\* C14 witness: removeNextStep has just removed a step from within the
\* stored list and two steps of different tasks are left.
C14_Witness ==
  /\ last.op = "removeNextStep" /\ last.ok /\ last.hit
  /\ handoffFiles[last.brand] # Null
  /\ Len(handoffFiles[last.brand].nextSteps) = 2
  /\ handoffFiles[last.brand].nextSteps[1].task # handoffFiles[last.brand].nextSteps[2].task

-----------------------------------------------------------------------------
(* Claims about the brand records, under BrandSpec *)

\* C15: createBrand with a name whose derived id is the id of an existing
\* brand record fails and leaves the brand records and the active-brand
\* pointer unchanged; when it succeeds the new brand is the active brand.
C15_CreateBrandCollision ==
  [][last'.op = "createBrand"
       => IF getBrand(last'.brand) # Null
          THEN /\ ~last'.ok
               /\ UNCHANGED <<brandFiles, configFile>>
          ELSE /\ last'.ok
               /\ brandFiles'[last'.brand] # Null
               /\ configFile'.activeBrand = last'.brand
               /\ getActiveBrand' = brandFiles'[last'.brand]]_vars

\* C15 witness: createBrand has just failed for a name that differs from the
\* name of the existing brand of the same derived id, while another brand was
\* the active brand.
C15_Witness ==
  /\ last.op = "createBrand" /\ ~last.ok
  /\ getBrand(last.brand) # Null
  /\ getBrand(last.brand).name # last.name
  /\ configFile.activeBrand # last.brand
  /\ getActiveBrand # Null

\* the id the names of NewNames are to derive: lower case, runs of other
\* characters as one hyphen, no hyphen at either end
DerivedId(name) ==
  CASE name = <<"A">> -> <<"a">>
    [] name = <<"a">> -> <<"a">>
    [] name = <<"b">> -> <<"b">>
    [] name = <<"b", "!">> -> <<"b">>

\* the website without a leading http:// or https:// and without one
\* trailing slash
StripWebsite(website) ==
  LET start == IF website[1] \in {"http://", "https://"} THEN 2 ELSE 1
      end == IF website[Len(website)] = "/" THEN Len(website) - 1 ELSE Len(website)
  IN SubSeq(website, start, end)

\* What C16 says of a successful createBrand(name, website), with `stored`
\* the website the record is to hold.
C16_RoundTrip(name, website, stored) ==
  LET brand == brandFiles'[DerivedId(name)]
  IN /\ brand # Null
     /\ brand.id = DerivedId(name)
     /\ brand.name = name
     /\ brand.website = stored

C17_UpdateBrandPinsIdCreated ==
  [][last'.op = "updateBrand"
       => IF getBrand(last'.brand) = Null
          THEN /\ ~last'.ok
               /\ UNCHANGED <<brandFiles, configFile>>
          ELSE /\ last'.ok
               /\ brandFiles'[last'.brand] # Null
               /\ brandFiles'[last'.brand].id = brandFiles[last'.brand].id
               /\ brandFiles'[last'.brand].created = brandFiles[last'.brand].created
               /\ \A o \in Ids \ {last'.brand} : brandFiles'[o] = brandFiles[o]]_vars

\* C17 witness: updateBrand has just merged updates that carry another id,
\* another creation date and another website into a brand, of which only the
\* website is in the record, while another brand has a record.
C17_Witness ==
  /\ last.op = "updateBrand" /\ last.ok /\ last.hit
  /\ getBrand(last.brand) # Null
  /\ getBrand(last.brand).website = <<"u">>
  /\ getBrand(last.brand).id = last.brand
  /\ getBrand(last.brand).id # <<"z">>
  /\ getBrand(last.brand).created # 9
  /\ \E o \in Ids \ {last.brand} : getBrand(o) # Null

\* C18: deleteBrand(id) of the active brand removes the record and clears
\* the active-brand pointer; of a brand that is not active it removes the
\* record and leaves the pointer as it was; of an id without a record it
\* fails and changes nothing.
C18_DeleteBrandPointer ==
  [][last'.op = "deleteBrand"
       => IF getBrand(last'.brand) = Null
          THEN /\ ~last'.ok
               /\ UNCHANGED <<brandFiles, configFile>>
          ELSE /\ last'.ok
               /\ brandFiles'[last'.brand] = Null
               /\ \A o \in Ids \ {last'.brand} : brandFiles'[o] = brandFiles[o]
               /\ IF configFile.activeBrand = last'.brand
                  THEN /\ ~Truthy(configFile'.activeBrand)
                       /\ getActiveBrand' = Null
                  ELSE configFile' = configFile]_vars

\* C18 witness: deleteBrand has just removed a brand that was not the active
\* brand, and the active brand is still the other one.
C18_Witness ==
  /\ last.op = "deleteBrand" /\ last.ok /\ ~last.hit
  /\ getBrand(last.brand) = Null
  /\ Truthy(configFile.activeBrand)
  /\ configFile.activeBrand # last.brand
  /\ getActiveBrand # Null

-----------------------------------------------------------------------------
(* Claims about generateId, under GenerateIdSpec *)

IdLetters ==
  {"a", "b", "c", "d", "e", "f", "g", "h", "i", "j", "k", "l", "m",
   "n", "o", "p", "q", "r", "s", "t", "u", "v", "w", "x", "y", "z"}

IdDigits == {"0", "1", "2", "3", "4", "5", "6", "7", "8", "9"}

\* C19: for every name, generateId(name) is at most 50 characters long, has
\* only lowercase letters, digits and single hyphens, and neither begins nor
\* ends with a hyphen.
C19_GenerateIdShape ==
  last.op = "generateId" =>
    LET id == last.brand
    IN /\ Len(id) <= 50
       /\ \A i \in 1..Len(id) : id[i] \in IdLetters \cup IdDigits \cup {"-"}
       /\ \A i \in 1..(Len(id) - 1) : ~(id[i] = "-" /\ id[i + 1] = "-")
       /\ Len(id) > 0 => (id[1] # "-" /\ id[Len(id)] # "-")

-----------------------------------------------------------------------------
(* Claims about the learnings, under LearningsSpec *)

\* the learning of the id is in the file as a global learning and
\* getBrandLearnings returns it for every brand id
PromotedIn(file, returned, id) ==
  /\ findLearning(file.learnings, id) # 0
  /\ file.learnings[findLearning(file.learnings, id)].brand = global
  /\ \A b \in Ids :
       \E k \in 1..Len(returned[b]) :
         returned[b][k] = file.learnings[findLearning(file.learnings, id)]

\* C20: after promoteToGlobal(id) succeeds getBrandLearnings(b) returns the
\* learning for every brand id b, and so it does after every later operation
\* but the deleteLearning of that learning: no operation makes it the
\* learning of one brand again.
C20_PromotedStaysGlobal ==
  [][/\ (last'.op = "promoteToGlobal" /\ last'.ok)
          => PromotedIn(learningsFile', [b \in Ids |-> getBrandLearnings(b)]', last'.name)
     /\ \A i \in LearningIds :
          (/\ PromotedIn(learningsFile, [b \in Ids |-> getBrandLearnings(b)], i)
           /\ ~(last'.op = "deleteLearning" /\ last'.name = i))
            => /\ PromotedIn(learningsFile', [b \in Ids |-> getBrandLearnings(b)]', i)
               /\ learningsFile'.learnings[findLearning(learningsFile'.learnings, i)].content
                    = learningsFile.learnings[findLearning(learningsFile.learnings, i)].content]_vars

\* C20 witness: a learning that was promoted is still returned for the brand
\* without a record and for the two others, after a learning of a brand was
\* stored behind it and its own confidence was updated.
C20_Witness ==
  /\ last.op = "updateLearningConfidence" /\ last.ok
  /\ Len(loadLearnings) = 2
  /\ loadLearnings[1].id = last.name
  /\ loadLearnings[1].brand = global
  /\ loadLearnings[1].confidence = "high"
  /\ loadLearnings[2].brand = <<"b">>
  /\ loadLearnings[2].id # last.name
  /\ \A b \in Ids : \E k \in 1..Len(getBrandLearnings(b)) : getBrandLearnings(b)[k].id = last.name
  /\ Len(getBrandLearnings(<<"a">>)) = 1

\* the fields of a learning that are to stay as storeLearning wrote them
SameLearning(old, new) ==
  /\ new.id = old.id
  /\ new.type = old.type
  /\ new.category = old.category
  /\ new.content = old.content
  /\ new.date = old.date
  /\ \/ new.brand = old.brand
     \/ old.brand # global /\ new.brand = global

\* C21: across storeLearning, updateLearningConfidence, promoteToGlobal and
\* deleteLearning a stored learning keeps its id, type, category, content and
\* date while it exists; only its confidence may change, and its brand only
\* from a brand to 'global'. A call with an unknown id fails and leaves the
\* store unchanged.
C21_LearningsImmutable ==
  [][LET old == learningsFile.learnings
         new == learningsFile'.learnings
     IN /\ last'.op = "storeLearning"
             => /\ Len(new) = Len(old) + 1
                /\ SubSeq(new, 1, Len(old)) = old
        /\ (last'.op = "deleteLearning" /\ last'.ok)
             => \E k \in 1..Len(old) : new = Without(old, k)
        /\ (last'.op \in {"updateLearningConfidence", "promoteToGlobal"} /\ last'.ok)
             => /\ Len(new) = Len(old)
                /\ \A k \in 1..Len(old) : SameLearning(old[k], new[k])
        /\ (/\ last'.op \in {"deleteLearning", "updateLearningConfidence",
                             "promoteToGlobal"}
            /\ \A k \in 1..Len(old) : old[k].id # last'.name)
             => /\ ~last'.ok
                /\ UNCHANGED learningsFile]_vars

\* C21 witness: promoteToGlobal has just made global a learning whose
\* confidence had been updated, next to another learning of a brand.
C21_Witness ==
  /\ last.op = "promoteToGlobal" /\ last.ok
  /\ Len(loadLearnings) = 2
  /\ \E k \in 1..2 :
       /\ loadLearnings[k].id = last.name
       /\ loadLearnings[k].brand = global
       /\ loadLearnings[k].confidence = "low"
       /\ loadLearnings[k].content = <<"d">>
       /\ loadLearnings[3 - k].brand = <<"a">>
       /\ loadLearnings[3 - k].id # last.name

-----------------------------------------------------------------------------
(* Claims about getRelevantLearnings, under RelevantSpec *)

\* the learning matches one of the criteria the context gives
MatchesContext(l, context) ==
  \/ /\ Truthy(context.category)
     /\ stringIncludes(toLowerCase(l.category), toLowerCase(context.category))
  \/ /\ keywordsGiven(context)
     /\ \E k \in 1..Len(context.keywords) :
          \/ stringIncludes(toLowerCase(l.content), toLowerCase(context.keywords[k]))
          \/ stringIncludes(toLowerCase(l.category), toLowerCase(context.keywords[k]))
  \/ /\ Truthy(context.activity)
     /\ \E k \in 1..Len(activityMap(context.activity)) :
          \/ stringIncludes(toLowerCase(l.content), activityMap(context.activity)[k])
          \/ stringIncludes(toLowerCase(l.category), activityMap(context.activity)[k])

ConfidenceRank(l) ==
  IF l.confidence = "high" THEN 1 ELSE IF l.confidence = "medium" THEN 2 ELSE 3

\* C22: getRelevantLearnings(brand, ctx) with an activity, a category or
\* keywords given returns no learning twice (no id twice), only stored
\* learnings of the brand or of 'global', only learnings that match one of
\* the criteria given, ordered high, medium, low confidence and by date
\* descending within one confidence.
C22_RelevantLearnings ==
  (/\ last.op = "getRelevantLearnings"
   /\ (\/ Truthy(last.context.activity) \/ Truthy(last.context.category)
       \/ keywordsGiven(last.context)))
    => LET r == last.returned
       IN /\ \A i, j \in 1..Len(r) : i # j => r[i].id # r[j].id
          /\ \A i \in 1..Len(r) :
               /\ \E k \in 1..Len(loadLearnings) : loadLearnings[k] = r[i]
               /\ r[i].brand = last.brand \/ r[i].brand = global
               /\ MatchesContext(r[i], last.context)
          /\ \A i, j \in 1..Len(r) :
               i < j => \/ ConfidenceRank(r[i]) < ConfidenceRank(r[j])
                        \/ /\ ConfidenceRank(r[i]) = ConfidenceRank(r[j])
                           /\ r[i].date >= r[j].date

\* C22 witness: a query by category, keywords and activity has just returned
\* two learnings, a global one and one of the brand, in the reverse of their
\* order in the file; the second matches the category, a keyword and the
\* activity and is returned once.
C22_Witness ==
  /\ last.op = "getRelevantLearnings"
  /\ Truthy(last.context.activity) /\ Truthy(last.context.category)
  /\ keywordsGiven(last.context)
  /\ Len(loadLearnings) = 2
  /\ last.returned = <<loadLearnings[2], loadLearnings[1]>>
  /\ loadLearnings[1].category = <<"S">> /\ loadLearnings[1].content = <<"seo">>
  /\ loadLearnings[1].brand = last.brand
  /\ loadLearnings[2].brand = global
  /\ loadLearnings[1].confidence = "low" /\ loadLearnings[2].confidence = "high"

-----------------------------------------------------------------------------
(* Claims about the history log, under HistorySpec *)

\* C23: the history log is append-only across startSession, logActivity and
\* endSession: the file of a brand changes only by endSession of an open
\* session of that brand, which appends that one session behind the sessions
\* already there and leaves no session open; a session that is started has
\* no activities of an earlier one; and logActivity with no open session
\* records nothing.
C23_HistoryAppendOnly ==
  [][/\ \A b \in Ids :
          IF last'.op = "endSession" /\ currentSession # Null
                                     /\ currentSession.brandId = b
          THEN LET old == sessionsOf(historyFiles, b)
                   new == sessionsOf(historyFiles', b)
               IN /\ Len(new) = Len(old) + 1
                  /\ SubSeq(new, 1, Len(old)) = old
                  /\ new[Len(new)].activities = currentSession.activities
                  /\ new[Len(new)].date = currentSession.date
                  /\ new[Len(new)].brandId = b
                  /\ currentSession' = Null
          ELSE historyFiles'[b] = historyFiles[b]
     /\ last'.op = "startSession" => currentSession'.activities = <<>>
     /\ (last'.op = "logActivity" /\ currentSession = Null)
          => /\ ~last'.ok
             /\ UNCHANGED <<currentSession, historyFiles>>]_vars

\* C23 witness: endSession has just appended a second session, with an
\* activity, to the file of a brand, the first session of the file has none,
\* and the other brand has a file.
C23_Witness ==
  /\ last.op = "endSession" /\ last.ok
  /\ currentSession = Null
  /\ Len(sessionsOf(historyFiles, last.brand)) = 2
  /\ sessionsOf(historyFiles, last.brand)[1].activities = <<>>
  /\ Len(sessionsOf(historyFiles, last.brand)[2].activities) = 1
  /\ \E o \in Ids \ {last.brand} : historyFiles[o] # Null

-----------------------------------------------------------------------------
(* Claims about /brand switch, under SwitchSpec *)

\* C24: when handleBrandSwitch moves from a brand that has an open ledger
\* with tasks in progress or blockers to another brand, a handoff of the
\* previous brand built from that ledger is stored when the ledger of the new
\* brand is initialized.
C24_SwitchCreatesHandoff ==
  [][(/\ last'.op = "handleBrandSwitch" /\ last'.ok
      /\ getLedger # Null /\ getLedger.brandId # last'.brand
      /\ Len(getLedger.inProgress) + Len(getLedger.blockers) > 0)
       => /\ currentLedger'.brandId = last'.brand
          /\ handoffFiles'[getLedger.brandId] # Null
          /\ Mirrors(handoffFiles'[getLedger.brandId], getLedger)]_vars

-----------------------------------------------------------------------------
(* Claims about the history of sessions, under PersistSpec *)

\* C25: every history session opened by beginSession is persisted once by
\* the time the coordinator is idle again: a beginSession issued while a
\* history session with logged activities is open leaves that session, with
\* its activities, in the history file of its brand, and a successful
\* finishSession (also after checkAndRestoreSession) appends one session to
\* the history file of the brand of the session.
C25_SessionsPersisted ==
  [][/\ (/\ last'.op = "beginSession" /\ last'.ok
         /\ currentSession # Null /\ Len(currentSession.activities) > 0)
          => \E k \in 1..Len(sessionsOf(historyFiles', currentSession.brandId)) :
               sessionsOf(historyFiles', currentSession.brandId)[k].activities
                 = currentSession.activities
     /\ (last'.op = "finishSession" /\ last'.ok)
          => Len(sessionsOf(historyFiles', sessionState.brand.id))
               = Len(sessionsOf(historyFiles, sessionState.brand.id)) + 1]_vars

-----------------------------------------------------------------------------
(* Claims about the coordinator and the ledger, under CoordSpec *)

\* C26: whenever hasActiveSession() is true there is a continuity ledger and
\* its brandId is the id of the brand of the session, in every state reached
\* through beginSession, finishSession, checkAndRestoreSession,
\* handleBrandSwitch, finishOnboarding and clearLedger.
C26_ActiveSessionHasItsLedger ==
  sessionState.isActive
    => /\ getLedger # Null
       /\ getLedger.brandId = sessionState.brand.id

-----------------------------------------------------------------------------
(* Claims about the active-brand pointer, under PointerSpec *)

\* C27: after any sequence of createBrand, updateBrand, deleteBrand,
\* setActiveBrand and beginSession calls the active-brand pointer in the
\* config file is unset or is the id of a brand record that exists.
C27_ActivePointerValid ==
  Truthy(configFile.activeBrand)
    => /\ configFile.activeBrand \in Ids
       /\ getBrand(configFile.activeBrand) # Null

-----------------------------------------------------------------------------
(* Claims about the in-progress list, under LedgerSpec *)

\* C28: in every reachable ledger state the in-progress list has no two
\* entries whose task texts are equal ignoring case: addInProgressTask of a
\* text that is there (ignoring case) leaves the ledger unchanged, and no
\* other operation adds an entry to the in-progress list.
C28_InProgressNoDuplicates ==
  [][/\ currentLedger' # Null
          => \A i, j \in 1..Len(currentLedger'.inProgress) :
               i # j => ~EqualIgnoringCase(currentLedger'.inProgress[i].task,
                                           currentLedger'.inProgress[j].task)
     /\ \A t \in Tasks :
          (/\ last'.op = "addInProgressTask" /\ getLedger # Null
           /\ AddInProgressTask(t) /\ InProgressMatches(getLedger, t) # {})
            => UNCHANGED ledgerVars
     /\ (last'.op # "addInProgressTask" /\ currentLedger' # Null)
          => /\ last'.op = "initLedger" => currentLedger'.inProgress = <<>>
             /\ (last'.op # "initLedger" /\ getLedger # Null)
                  => /\ Len(currentLedger'.inProgress) <= Len(getLedger.inProgress)
                     /\ \A i \in 1..Len(currentLedger'.inProgress) :
                          \E j \in 1..Len(getLedger.inProgress) :
                            currentLedger'.inProgress[i].task
                              = getLedger.inProgress[j].task]_vars

\* C28 witness: addInProgressTask has just been called with a text that is
\* in the list, which holds the two tasks it held.
C28_Witness ==
  /\ last.op = "addInProgressTask" /\ last.hit
  /\ currentLedger # Null
  /\ Len(currentLedger.inProgress) = 2
  /\ currentLedger.inProgress[1].task = <<"X">>
  /\ currentLedger.inProgress[2].task = <<"y">>
  /\ continuityFile = currentLedger

-----------------------------------------------------------------------------
(* Claims about the onboarding, under OnboardingSpec *)

\* C29: once name and website are collected, an optional question that was
\* answered with a skip, the reply given to processResponse with the field of
\* that question, is not the question getNextQuestion asks afterwards (so the
\* questions run out after at most one reply per optional field).
C29_SkippedNeverAskedAgain ==
  [][(/\ last'.op = "processResponse" /\ last'.hit
      /\ canCreateBrand(onboardingState)
      /\ last'.context.optional)
       => \/ getNextQuestion(onboardingState') = Null
          \/ getNextQuestion(onboardingState').field # last'.context.field]_vars

-----------------------------------------------------------------------------
(* Claims about rateLimit, under RateLimitSpec *)

\* C30: for one apiName, a call of rateLimit that resolves, be it at once or
\* after its wait, and be other calls pending or not, resolves at least the
\* minimum interval of that API after the call that resolved before it.
C30_ResolvedAnIntervalApart ==
  [][(/\ last'.op = "rateLimit" /\ last'.hit
      /\ rateLimits[last'.context.apiName] # Null)
       => rateLimits'[last'.context.apiName].lastCall
            - rateLimits[last'.context.apiName].lastCall
              >= minIntervalOf(last'.context.apiName)]_vars

====
